---- MODULE Spec2Model ----
(***************************************************************************)
(* TenderIntel search core: keyword expansion (SynonymManager and the      *)
(* YAML-backed SynonymManagerV2), the SQLite FTS5 query compiler and       *)
(* score normalisation, and the UnifiedSearchManager engine selection.     *)
(*                                                                         *)
(* A Python str is modelled as a sequence of one-character strings, so     *)
(* that lower(), strip(), split(), re.sub and the `in` substring test are  *)
(* computed character by character.  A float score is modelled by an       *)
(* integer number of score units; a confidence or weight by an integer     *)
(* number of thousandths (0.95 is 950).                                    *)
(***************************************************************************)
EXTENDS Integers, Sequences, FiniteSets, TLC

\* ------------------------------------------------------------------------
\* Python str operations
\* ------------------------------------------------------------------------

Range(s) == {s[i] : i \in 1..Len(s)}

\* characters str.split() and str.strip() treat as whitespace
Whitespace == {" ", "\t"}

UpperChars ==
    <<"A","B","C","D","E","F","G","H","I","J","K","L","M",
      "N","O","P","Q","R","S","T","U","V","W","X","Y","Z">>

LowerChars ==
    <<"a","b","c","d","e","f","g","h","i","j","k","l","m",
      "n","o","p","q","r","s","t","u","v","w","x","y","z">>

LowerChar(c) ==
    IF \E i \in 1..Len(UpperChars) : UpperChars[i] = c
    THEN LowerChars[CHOOSE i \in 1..Len(UpperChars) : UpperChars[i] = c]
    ELSE c

\* str.lower()
Lower(s) == [i \in 1..Len(s) |-> LowerChar(s[i])]

RECURSIVE LStrip(_)
LStrip(s) ==
    IF s # <<>> /\ Head(s) \in Whitespace THEN LStrip(Tail(s)) ELSE s

RECURSIVE RStrip(_)
RStrip(s) ==
    IF s # <<>> /\ s[Len(s)] \in Whitespace
    THEN RStrip(SubSeq(s, 1, Len(s) - 1))
    ELSE s

\* str.strip()
Strip(s) == RStrip(LStrip(s))

RECURSIVE SplitWords(_, _, _)
SplitWords(s, cur, acc) ==
    IF s = <<>>
    THEN (IF cur = <<>> THEN acc ELSE Append(acc, cur))
    ELSE IF Head(s) \in Whitespace
         THEN SplitWords(Tail(s), <<>>,
                         IF cur = <<>> THEN acc ELSE Append(acc, cur))
         ELSE SplitWords(Tail(s), Append(cur, Head(s)), acc)

\* str.split() with no separator: the maximal runs of non-whitespace
Split(s) == SplitWords(s, <<>>, <<>>)

RECURSIVE Join(_, _)
\* sep.join(parts)
Join(sep, parts) ==
    IF parts = <<>> THEN <<>>
    ELSE IF Len(parts) = 1 THEN parts[1]
    ELSE parts[1] \o sep \o Join(sep, Tail(parts))

\* the substring test `sub in s`
Contains(sub, s) ==
    \E i \in 0..(Len(s) - Len(sub)) : SubSeq(s, i + 1, i + Len(sub)) = sub

Abs(x) == IF x < 0 THEN -x ELSE x

RECURSIVE SeqMax(_)
SeqMax(s) ==
    IF Len(s) = 1 THEN s[1]
    ELSE LET m == SeqMax(Tail(s)) IN IF s[1] >= m THEN s[1] ELSE m

RECURSIVE SeqMin(_)
SeqMin(s) ==
    IF Len(s) = 1 THEN s[1]
    ELSE LET m == SeqMin(Tail(s)) IN IF s[1] <= m THEN s[1] ELSE m

\* Python round() of the non-negative quotient num/den: round half to even
RoundHalfEven(num, den) ==
    LET q == num \div den
        r == num % den
    IN  IF 2 * r < den THEN q
        ELSE IF 2 * r > den THEN q + 1
        ELSE IF q % 2 = 0 THEN q ELSE q + 1

\* ------------------------------------------------------------------------
\* SQLiteFTS5Engine (engines/sqlite_engine.py): query compilation
\* ------------------------------------------------------------------------

\* the character class of the re.sub in _sanitize_fts5_input
ReservedChars ==
    {"@","#","$","%","^","&","*","+","=","|","\\",":",";","\"","'",
     "<",">",",",".","?","/"}

\* the phrase trimmed, its reserved characters kept
StripOnly(phrase) == Strip(phrase)

\* the substitution made once: only the first reserved character replaced
SanitizeFirstOnly(phrase) ==
    IF phrase = <<>> THEN <<>>
    ELSE LET reserved == {i \in 1..Len(phrase) : phrase[i] \in ReservedChars}
             sanitized ==
                 [i \in 1..Len(phrase) |->
                     IF i \in reserved /\ \A j \in reserved : i <= j
                     THEN " " ELSE phrase[i]]
         IN  Strip(Join(<<" ">>, Split(sanitized)))

_sanitize_fts5_input(phrase) ==
    IF phrase = <<>> THEN <<>>
    ELSE LET sanitized ==
                 [i \in 1..Len(phrase) |->
                     IF phrase[i] \in ReservedChars THEN " " ELSE phrase[i]]
         IN  Strip(Join(<<" ">>, Split(sanitized)))

\* the sort key len(p.split())
WordCount(p) == Len(Split(p))

RECURSIVE InsertBySpecificity(_, _)
InsertBySpecificity(p, sorted) ==
    IF sorted = <<>> THEN <<p>>
    ELSE IF WordCount(Head(sorted)) >= WordCount(p)
         THEN <<Head(sorted)>> \o InsertBySpecificity(p, Tail(sorted))
         ELSE <<p>> \o sorted

RECURSIVE SortBySpecificity(_, _)
\* sorted(phrases, key=word count, reverse=True); Python's sort is stable
SortBySpecificity(phrases, acc) ==
    IF phrases = <<>> THEN acc
    ELSE SortBySpecificity(Tail(phrases),
                           InsertBySpecificity(Head(phrases), acc))

RECURSIVE QueryParts(_)
QueryParts(sorted_phrases) ==
    IF sorted_phrases = <<>> THEN <<>>
    ELSE LET sanitized_phrase == _sanitize_fts5_input(Head(sorted_phrases))
             rest == QueryParts(Tail(sorted_phrases))
         IN  IF sanitized_phrase = <<>> THEN rest
             ELSE IF " " \in Range(sanitized_phrase)
                  THEN <<(<<"\"">> \o sanitized_phrase \o <<"\"">>)>> \o rest
                  ELSE <<sanitized_phrase>> \o rest

_build_fts5_query(phrases) ==
    IF phrases = <<>> THEN <<>>
    ELSE Join(<<" ","O","R"," ">>, QueryParts(SortBySpecificity(phrases, <<>>)))

RECURSIVE EnhancedQueryParts(_)
\* sqlite_fts5_engine.py: the phrases are quoted or not, as they are
EnhancedQueryParts(sorted_phrases) ==
    IF sorted_phrases = <<>> THEN <<>>
    ELSE LET phrase == Head(sorted_phrases)
             rest == EnhancedQueryParts(Tail(sorted_phrases))
         IN  IF " " \in Range(phrase)
             THEN <<(<<"\"">> \o phrase \o <<"\"">>)>> \o rest
             ELSE <<phrase>> \o rest

_build_enhanced_fts5_query(phrases) ==
    IF phrases = <<>> THEN <<>>
    ELSE Join(<<" ","O","R"," ">>,
              EnhancedQueryParts(SortBySpecificity(phrases, <<>>)))

\* ------------------------------------------------------------------------
\* Result processing: similarity_percent, matched_phrases, exact_match
\* ------------------------------------------------------------------------

\* [p for p in expanded_phrases if p.lower() in title_lower]
PhrasesInTitle(expanded_phrases, title) ==
    SelectSeq(expanded_phrases, LAMBDA p : Contains(Lower(p), Lower(title)))

\* any(p.lower() in title_lower for p in expanded_phrases if " " in p)
ExactMatch(expanded_phrases, title) ==
    \E i \in 1..Len(expanded_phrases) :
        /\ " " \in Range(expanded_phrases[i])
        /\ Contains(Lower(expanded_phrases[i]), Lower(title))

\* the percentage counted down from the best score instead of up from zero
DistanceFromBest(raw_score, max_score) ==
    IF max_score > 0 THEN 100 - (raw_score * 100) \div max_score ELSE 0

\* int((raw_score / max_score) * 100) if max_score > 0 else 0
UnifiedSimilarity(raw_score, max_score) ==
    IF max_score > 0 THEN (raw_score * 100) \div max_score ELSE 0

\* engines/sqlite_engine.py: rows are records [title, tender_id, bm25]
_process_results_to_unified(rows, expanded_phrases, keyword) ==
    IF rows = <<>> THEN <<>>
    ELSE LET bm25_scores == [i \in 1..Len(rows) |-> Abs(rows[i].bm25)]
             max_score == SeqMax(bm25_scores)
         IN  [i \in 1..Len(rows) |->
                LET matched == PhrasesInTitle(expanded_phrases, rows[i].title)
                IN  [tender_id |-> rows[i].tender_id,
                     title |-> rows[i].title,
                     raw_score |-> Abs(rows[i].bm25),
                     similarity_percent |->
                         UnifiedSimilarity(Abs(rows[i].bm25), max_score),
                     matched_phrases |->
                         IF matched = <<>> THEN <<keyword>> ELSE matched,
                     exact_match |->
                         ExactMatch(expanded_phrases, rows[i].title)]]

\* sqlite_fts5_engine.py: min-max normalisation of the signed scores
EnhancedSimilarity(score, min_score, max_score) ==
    IF min_score = max_score THEN 100
    ELSE LET r == RoundHalfEven(100 * (max_score - score),
                                max_score - min_score)
         IN  IF r >= 1 THEN r ELSE 1

_process_enhanced_search_results(raw_results, expanded_phrases) ==
    IF raw_results = <<>> THEN <<>>
    ELSE LET bm25_scores == [i \in 1..Len(raw_results) |-> raw_results[i].bm25]
             min_score == SeqMin(bm25_scores)
             max_score == SeqMax(bm25_scores)
         IN  [i \in 1..Len(raw_results) |->
                [tender_id |-> raw_results[i].tender_id,
                 title |-> raw_results[i].title,
                 similarity_percent |->
                     EnhancedSimilarity(raw_results[i].bm25, min_score, max_score),
                 matched_phrases |->
                     PhrasesInTitle(expanded_phrases, raw_results[i].title),
                 exact_match |->
                     ExactMatch(expanded_phrases, raw_results[i].title)]]

\* ------------------------------------------------------------------------
\* SynonymManager (search/synonym_manager.py): the built-in dictionary
\* ------------------------------------------------------------------------

s_api == <<"a","p","i">>
s_lan == <<"l","a","n">>
s_rest == <<"r","e","s","t">>
s_application_programming_interface ==
    <<"a","p","p","l","i","c","a","t","i","o","n"," ","p","r","o","g","r","a","m","m","i","n","g"," ","i","n","t","e","r","f","a","c","e">>
s_rest_api == <<"r","e","s","t"," ","a","p","i">>

\* The dict literal of _initialize_comprehensive_synonyms, as the sequence
\* of its key: value items in source order.  The items kept here are the
\* entries for "api" (lines 35, 233 and 302), "rest" (36) and "lan" (61).
SynonymLiteral ==
    << <<s_api, <<s_application_programming_interface,
                  s_rest_api,
                  <<"a","p","i"," ","g","a","t","e","w","a","y">>,
                  <<"o","p","e","n","a","p","i">> >> >>,
       <<s_rest, << <<"r","e","p","r","e","s","e","n","t","a","t","i","o","n","a","l"," ","s","t","a","t","e"," ","t","r","a","n","s","f","e","r">>,
                    s_rest_api,
                    <<"r","e","s","t","f","u","l"," ","s","e","r","v","i","c","e","s">> >> >>,
       <<s_lan, << <<"l","o","c","a","l"," ","a","r","e","a"," ","n","e","t","w","o","r","k">>,
                   <<"l","a","y","e","r"," ","2"," ","s","w","i","t","c","h">>,
                   <<"l","a","y","e","r"," ","3"," ","s","w","i","t","c","h">>,
                   <<"v","l","a","n">>,
                   <<"e","t","h","e","r","n","e","t">> >> >>,
       <<s_api, <<s_application_programming_interface,
                  <<"p","r","o","g","r","a","m","m","i","n","g"," ","i","n","t","e","r","f","a","c","e">>,
                  <<"s","o","f","t","w","a","r","e"," ","i","n","t","e","r","f","a","c","e">> >> >>,
       <<s_api, <<s_application_programming_interface,
                  <<"s","e","r","v","i","c","e"," ","i","n","t","e","r","f","a","c","e">>,
                  <<"i","n","t","e","g","r","a","t","i","o","n"," ","p","o","i","n","t">> >> >> >>

\* Evaluation of a Python dict display: the items are stored left to right,
\* so the value of a repeated key is the one of its last item.
DictDisplay(items) ==
    [k \in {items[i][1] : i \in 1..Len(items)} |->
        items[CHOOSE i \in 1..Len(items) :
                 /\ items[i][1] = k
                 /\ \A j \in (i + 1)..Len(items) : items[j][1] # k][2]]

_initialize_comprehensive_synonyms == DictDisplay(SynonymLiteral)

\* _create_domain_mapping, in the order of the dict (networking, cloud);
\* the keyword sets are cut down to the keywords used here: "lan" and "api"
\* are keys of the synonym dictionary, "switch" is a key of none of its items
_create_domain_mapping ==
    << [domain |-> "networking", keywords |-> {s_lan, <<"s","w","i","t","c","h">>}],
       [domain |-> "cloud", keywords |-> {s_api}] >>

_initialize_anti_patterns ==
    [k \in {s_lan, s_api} |->
        IF k = s_lan
        THEN << <<"l","a","n","d","s","c","a","p","e">> >>
        ELSE << <<"a","p","p","l","i","c","a","t","i","o","n"," ","f","o","r","m">> >>]

\* dict.get(key, default)
DictGet(d, key, default) == IF key \in DOMAIN d THEN d[key] ELSE default

\* s[:n] for n >= 0
Prefix(s, n) == SubSeq(s, 1, IF n < Len(s) THEN n ELSE Len(s))

\* first domain of the mapping whose keyword set holds the keyword
_detect_domain(domain_mapping, keyword) ==
    IF \E i \in 1..Len(domain_mapping) : keyword \in domain_mapping[i].keywords
    THEN domain_mapping[CHOOSE i \in 1..Len(domain_mapping) :
            /\ keyword \in domain_mapping[i].keywords
            /\ \A j \in 1..(i - 1) : keyword \notin domain_mapping[j].keywords].domain
    ELSE "general"

\* the confidence tiers without the test for an unknown keyword
ConfidenceByCountOnly(synonyms, keyword, expansions) ==
    IF Len(expansions) >= 3 THEN 950
    ELSE IF Len(expansions) >= 2 THEN 750
    ELSE 500

\* SynonymManager._calculate_expansion_confidence, in thousandths
_calculate_expansion_confidence(synonyms, keyword, expansions) ==
    IF keyword \notin DOMAIN synonyms THEN 300
    ELSE IF Len(expansions) >= 3 THEN 950
    ELSE IF Len(expansions) >= 2 THEN 750
    ELSE 500

\* SynonymManager.expand_keyword
expand_keyword(keyword, max_expansions) ==
    LET normalized_keyword == Strip(Lower(keyword))
        base_expansions ==
            DictGet(_initialize_comprehensive_synonyms, normalized_keyword,
                    <<normalized_keyword>>)
        limited_expansions == Prefix(base_expansions, max_expansions)
    IN  [original_keyword |-> keyword,
         normalized_keyword |-> normalized_keyword,
         expanded_phrases |-> limited_expansions,
         domain |-> _detect_domain(_create_domain_mapping, normalized_keyword),
         confidence |->
             _calculate_expansion_confidence(_initialize_comprehensive_synonyms,
                                             normalized_keyword,
                                             limited_expansions),
         anti_patterns |->
             DictGet(_initialize_anti_patterns, normalized_keyword, <<>>),
         expansion_count |-> Len(limited_expansions)]

\* ------------------------------------------------------------------------
\* SynonymManagerV2 (search/synonym_manager_yaml.py)
\* ------------------------------------------------------------------------

\* {} and d[key] = value
EmptyDict == <<>>

DictSet(d, key, value) ==
    [x \in (DOMAIN d) \cup {key} |-> IF x = key THEN value ELSE d[x]]

\* keyword.lower().replace('_', ' ')
LoadKey(keyword) ==
    [i \in 1..Len(keyword) |->
        IF Lower(keyword)[i] = "_" THEN " " ELSE Lower(keyword)[i]]

\* Contents of the synonyms file.  A parsed document is [kind, domains,
\* sections, config]; a section is [mapping, items], its items in file order,
\* each [keyword, form, data].
DocA ==
    [kind |-> "mapping",
     domains |-> <<"networking">>,
     sections |->
        [networking |->
            [mapping |-> TRUE,
             items |->
                << [keyword |-> s_lan, form |-> "dict",
                    data |-> [expansions |->
                                 << <<"l","o","c","a","l"," ","a","r","e","a"," ","n","e","t","w","o","r","k">>,
                                    <<"v","l","a","n">> >>,
                              weight |-> 800,
                              anti_patterns |->
                                 << <<"l","a","n","d","s","c","a","p","e">> >>]] >>]],
     config |-> "A"]

\* two sections; the keyword lan is declared in both
DocB ==
    [kind |-> "mapping",
     domains |-> <<"networking", "cloud">>,
     sections |->
        [networking |->
            [mapping |-> TRUE,
             items |->
                << [keyword |-> <<"L","A","N">>, form |-> "dict",
                    data |-> [expansions |->
                                 << <<"e","t","h","e","r","n","e","t">>,
                                    <<"v","l","a","n">>,
                                    <<"w","a","n">>,
                                    <<"l","o","c","a","l"," ","a","r","e","a"," ","n","e","t","w","o","r","k">> >>]] >>],
         cloud |->
            [mapping |-> TRUE,
             items |->
                << [keyword |-> <<"a","p","i","_","g","a","t","e","w","a","y">>,
                    form |-> "list",
                    data |-> << <<"r","e","s","t"," ","a","p","i">> >>],
                   [keyword |-> s_lan, form |-> "dict",
                    data |-> [expansions |->
                                 << <<"c","l","o","u","d"," ","l","a","n">> >>,
                              weight |-> 600]] >>]],
     config |-> "B"]

\* a document whose second section is a scalar: config[domain].items() raises
DocBroken ==
    [kind |-> "mapping",
     domains |-> <<"networking", "cloud">>,
     sections |->
        [networking |->
            [mapping |-> TRUE,
             items |->
                << [keyword |-> s_lan, form |-> "list",
                    data |-> << <<"v","l","a","n">> >>] >>],
         cloud |-> [mapping |-> FALSE, items |-> <<>>]],
     config |-> "broken"]

\* a document the loader takes without complaint although its entry declares
\* no expansion and a weight above 1.0
DocC ==
    [kind |-> "mapping",
     domains |-> <<"networking">>,
     sections |->
        [networking |->
            [mapping |-> TRUE,
             items |->
                << [keyword |-> s_lan, form |-> "dict",
                    data |-> [expansions |-> <<>>, weight |-> 2500]] >>]],
     config |-> "C"]

\* a document with a section and without the list 'domains'
DocNoDomains ==
    [kind |-> "mapping",
     sections |->
        [networking |->
            [mapping |-> TRUE,
             items |->
                << [keyword |-> s_lan, form |-> "list",
                    data |-> << <<"v","l","a","n">> >>] >>]],
     config |-> "D"]

\* what Path.exists(), open() and yaml.safe_load() can find at the path:
\* no file, text that is not YAML, a YAML list, or a YAML mapping
YamlFiles ==
    {[kind |-> "absent"], [kind |-> "unparseable"], [kind |-> "sequence"],
     DocA, DocB, DocBroken, DocC}

\* what the path holds when the manager is constructed: one of these, or
\* the document written without its list of domains
StartFiles == YamlFiles \cup {DocNoDomains}

\* data.get('expansions', []) / data if isinstance(data, list) else []
EntryExpansions(entry) ==
    IF entry.form = "dict" THEN DictGet(entry.data, "expansions", <<>>)
    ELSE IF entry.form = "list" THEN entry.data ELSE <<>>

\* data.get('weight', 1.0) / 1.0
EntryWeight(entry) ==
    IF entry.form = "dict" THEN DictGet(entry.data, "weight", 1000) ELSE 1000

\* data.get('anti_patterns', []) / []
EntryAntiPats(entry) ==
    IF entry.form = "dict" THEN DictGet(entry.data, "anti_patterns", <<>>)
    ELSE <<>>

RECURSIVE DomainLoop(_, _, _)
\* for domain in self.domains: if domain in config: ...
\* the next listed domain from index d on that has a section, or the end
DomainLoop(config, domains, d) ==
    IF d > Len(domains) THEN [pc |-> "L85", d |-> d, k |-> 0]
    ELSE IF domains[d] \in DOMAIN config.sections
         THEN [pc |-> "L60", d |-> d, k |-> 0]
         ELSE DomainLoop(config, domains, d + 1)

\* for keyword, data in config[domain].items(): the position after the item
\* k of the section of domain d (k = 0: entry of the loop)
KeywordLoop(config, domains, d, k) ==
    LET section == config.sections[domains[d]]
    IN  IF ~section.mapping THEN [pc |-> "raise", d |-> d, k |-> k]
        ELSE IF k < Len(section.items)
             THEN [pc |-> "L76", d |-> d, k |-> k + 1]
             ELSE DomainLoop(config, domains, d + 1)

\* self.domain_mapping[domain] = set()
MappingReset(domain_mapping, domain) ==
    IF \E i \in 1..Len(domain_mapping) : domain_mapping[i].domain = domain
    THEN [i \in 1..Len(domain_mapping) |->
            IF domain_mapping[i].domain = domain
            THEN [domain |-> domain, keywords |-> {}]
            ELSE domain_mapping[i]]
    ELSE Append(domain_mapping, [domain |-> domain, keywords |-> {}])

\* self.domain_mapping[domain].add(norm_keyword)
MappingAdd(domain_mapping, domain, norm_keyword) ==
    [i \in 1..Len(domain_mapping) |->
        IF domain_mapping[i].domain = domain
        THEN [domain |-> domain,
              keywords |-> domain_mapping[i].keywords \cup {norm_keyword}]
        ELSE domain_mapping[i]]

\* the literals of _load_fallback_synonyms
FallbackSynonyms ==
    DictDisplay(
      << <<s_api, <<s_application_programming_interface,
                    s_rest_api,
                    <<"a","p","i"," ","g","a","t","e","w","a","y">> >> >>,
         <<s_lan, << <<"l","o","c","a","l"," ","a","r","e","a"," ","n","e","t","w","o","r","k">>,
                     <<"l","a","y","e","r"," ","2"," ","s","w","i","t","c","h">>,
                     <<"v","l","a","n">>,
                     <<"e","t","h","e","r","n","e","t">> >> >>,
         <<<<"c","l","o","u","d">>,
            << <<"c","l","o","u","d"," ","s","e","r","v","i","c","e","s">>,
               <<"c","l","o","u","d"," ","c","o","m","p","u","t","i","n","g">>,
               <<"c","l","o","u","d"," ","p","l","a","t","f","o","r","m">> >> >>,
         <<<<"s","e","c","u","r","i","t","y">>,
            << <<"c","y","b","e","r"," ","s","e","c","u","r","i","t","y">>,
               <<"i","n","f","o","r","m","a","t","i","o","n"," ","s","e","c","u","r","i","t","y">>,
               <<"s","e","c","u","r","i","t","y"," ","s","o","l","u","t","i","o","n">> >> >> >>)

FallbackAntiPatterns ==
    DictDisplay(
      << <<s_lan, << <<"l","a","n","d"," ","d","e","v","e","l","o","p","m","e","n","t">>,
                     <<"l","a","n","d","s","c","a","p","e">> >> >>,
         <<s_api, << <<"a","p","p","l","i","c","a","t","i","o","n"," ","f","o","r","m">> >> >> >>)

FallbackDomainMapping ==
    << [domain |-> "networking", keywords |-> {s_lan}],
       [domain |-> "cloud", keywords |-> {s_api, <<"c","l","o","u","d">>}],
       [domain |-> "security", keywords |-> {<<"s","e","c","u","r","i","t","y">>}] >>

\* SynonymManagerV2._calculate_expansion_confidence, in thousandths:
\* round(base_confidence * weight, 3)
V2Confidence(synonyms, keyword, expansions, weight) ==
    LET base_confidence ==
            IF keyword \notin DOMAIN synonyms THEN 300
            ELSE IF Len(expansions) >= 4 THEN 950
            ELSE IF Len(expansions) >= 3 THEN 900
            ELSE IF Len(expansions) >= 2 THEN 750
            ELSE 500
    IN  RoundHalfEven(base_confidence * weight, 1000)

\* SynonymManagerV2.expand_keyword run on one dictionary
\* [synonyms, weights, anti_patterns, domain_mapping] from entry to return
V2Expand(dict, keyword, max_expansions) ==
    LET normalized_keyword == Strip(Lower(keyword))
        base_expansions ==
            DictGet(dict.synonyms, normalized_keyword, <<normalized_keyword>>)
        limited_expansions == Prefix(base_expansions, max_expansions)
        weight == DictGet(dict.weights, normalized_keyword, 500)
    IN  [original_keyword |-> keyword,
         normalized_keyword |-> normalized_keyword,
         expanded_phrases |-> limited_expansions,
         domain |-> _detect_domain(dict.domain_mapping, normalized_keyword),
         confidence |->
             V2Confidence(dict.synonyms, normalized_keyword,
                          limited_expansions, weight),
         weight |-> weight,
         anti_patterns |-> DictGet(dict.anti_patterns, normalized_keyword, <<>>),
         expansion_count |-> Len(limited_expansions),
         source |-> IF normalized_keyword \in DOMAIN dict.synonyms
                    THEN "yaml_config" ELSE "fallback"]

\* ------------------------------------------------------------------------
\* The indexed corpus (rows of the FTS5 table `tenders`)
\* ------------------------------------------------------------------------

t_rest_api_gateway ==
    <<"R","E","S","T"," ","A","P","I"," ","G","a","t","e","w","a","y"," ","f","o","r"," ","G","o","v","e","r","n","m","e","n","t"," ","S","e","r","v","i","c","e","s">>

\* title and keywords are the indexed text columns kept by the model,
\* service_category one of the categorical columns
Corpus ==
    << [tender_id |-> 1,
        title |-> t_rest_api_gateway,
        keywords |-> <<"a","p","i",",","g","a","t","e","w","a","y",",","r","e","s","t">>,
        service_category |-> "cloud"],
       [tender_id |-> 2,
        title |-> <<"E","n","t","e","r","p","r","i","s","e"," ","I","n","t","e","g","r","a","t","i","o","n"," ","P","o","i","n","t","s">>,
        keywords |-> <<"e","s","b">>,
        service_category |-> "software"],
       [tender_id |-> 3,
        title |-> <<"L","o","c","a","l"," ","A","r","e","a"," ","N","e","t","w","o","r","k"," ","w","i","t","h"," ","E","t","h","e","r","n","e","t"," ","S","w","i","t","c","h","e","s">>,
        keywords |-> <<"l","a","n",",","e","t","h","e","r","n","e","t">>,
        service_category |-> "networking"],
       [tender_id |-> 4,
        title |-> <<"S","e","r","v","i","c","e"," ","I","n","t","e","r","f","a","c","e"," ","S","o","f","t","w","a","r","e">>,
        keywords |-> <<"s","d","k">>,
        service_category |-> "software"] >>

\* ------------------------------------------------------------------------
\* The FTS5 table behind SQLiteFTS5Engine (tokenize='porter', MATCH)
\* ------------------------------------------------------------------------

Digits == {"0","1","2","3","4","5","6","7","8","9"}

\* step 1a of the Porter stemmer (plurals); the later steps map the words
\* of the corpus and of the dictionary to the same classes
PorterPlural(token) ==
    LET n == Len(token)
    IN  IF n >= 4 /\ SubSeq(token, n - 3, n) = <<"s","s","e","s">>
        THEN SubSeq(token, 1, n - 2)
        ELSE IF n >= 3 /\ SubSeq(token, n - 2, n) = <<"i","e","s">>
        THEN SubSeq(token, 1, n - 2)
        ELSE IF n >= 2 /\ SubSeq(token, n - 1, n) = <<"s","s">>
        THEN token
        ELSE IF n >= 2 /\ token[n] = "s"
        THEN SubSeq(token, 1, n - 1)
        ELSE token

\* the tokenizer: case-folded runs of letters and digits, stemmed
FtsTokenize(text) ==
    LET folded == Lower(text)
        spaced == [i \in 1..Len(folded) |->
                      IF folded[i] \in Range(LowerChars) \cup Digits
                      THEN folded[i] ELSE " "]
        words == Split(spaced)
    IN  [i \in 1..Len(words) |-> PorterPlural(words[i])]

\* characters of a bareword of the query syntax
BarewordChars == Range(LowerChars) \cup Range(UpperChars) \cup Digits \cup {"_"}

\* The terms of a MATCH expression, left to right: strings, barewords and
\* OR (the only operator the compiled queries hold); any other character
\* outside a string, and a string left open, is rejected.
FtsLex(s) ==
    LET quotes == {i \in 1..Len(s) : s[i] = "\""}
        outside(i) == Cardinality({q \in quotes : q < i}) % 2 = 0
        starts ==
            {i \in 1..Len(s) :
                /\ outside(i)
                /\ s[i] \notin Whitespace
                /\ (s[i] \in BarewordChars /\ i > 1) => s[i - 1] \notin BarewordChars}
        term(i) ==
            IF s[i] = "\""
            THEN (IF \E q \in quotes : q > i
                  THEN LET close == CHOOSE q \in quotes :
                                        q > i /\ \A r \in quotes : r > i => q <= r
                       IN  [kind |-> "string", text |-> SubSeq(s, i + 1, close - 1)]
                  ELSE [kind |-> "bad", text |-> SubSeq(s, i, Len(s))])
            ELSE IF s[i] \in BarewordChars
            THEN LET last == CHOOSE e \in i..Len(s) :
                                 /\ \A j \in i..e : s[j] \in BarewordChars
                                 /\ (e < Len(s) => s[e + 1] \notin BarewordChars)
                     word == SubSeq(s, i, last)
                 IN  [kind |-> IF word = <<"O","R">> THEN "or" ELSE "bare",
                      text |-> word]
            ELSE [kind |-> "bad", text |-> <<s[i]>>]
    IN  [k \in 1..Cardinality(starts) |->
            term(CHOOSE i \in starts : Cardinality({j \in starts : j < i}) = k - 1)]

\* the expression parses: terms separated by single ORs (adjacent terms are
\* an implicit AND)
FtsValid(terms) ==
    /\ terms # <<>>
    /\ \A i \in 1..Len(terms) : terms[i].kind # "bad"
    /\ terms[1].kind # "or" /\ terms[Len(terms)].kind # "or"
    /\ \A i \in 1..(Len(terms) - 1) :
           ~(terms[i].kind = "or" /\ terms[i + 1].kind = "or")

\* the term's tokens occur as a phrase in an indexed column of the row
FtsTermMatches(term, row) ==
    LET tokens == FtsTokenize(term.text)
    IN  /\ tokens # <<>>
        /\ \/ Contains(tokens, FtsTokenize(row.title))
           \/ Contains(tokens, FtsTokenize(row.keywords))

\* tenders MATCH ?: some OR-operand has all its terms in the row
FtsMatch(terms, row) ==
    \E i \in 1..Len(terms) :
        /\ terms[i].kind # "or"
        /\ \A j \in 1..Len(terms) :
               (/\ terms[j].kind # "or"
                /\ \A k \in (IF i < j THEN i ELSE j)..(IF i < j THEN j ELSE i) :
                       terms[k].kind # "or")
               => FtsTermMatches(terms[j], row)

\* magnitudes of the bm25() scores the table reports: -MaxBm .. -1
MaxBm == 2

\* SELECT ... WHERE tenders MATCH ? ORDER BY bm25_score ASC: the pages the
\* statement can return for the matching rows, before LIMIT
RankedRows(matched) ==
    LET n == Len(matched)
    IN  {rows \in [1..n -> [tender_id : {matched[i].tender_id : i \in 1..n},
                            title : {matched[i].title : i \in 1..n},
                            bm25 : (0 - MaxBm)..(0 - 1)]] :
            /\ \A i \in 1..n : \E j \in 1..n :
                   /\ rows[j].tender_id = matched[i].tender_id
                   /\ rows[j].title = matched[i].title
            /\ \A i \in 1..(n - 1) : rows[i].bm25 <= rows[i + 1].bm25}

\* ------------------------------------------------------------------------
\* UnifiedSearchResponse (search/base.py) as the engines build it
\* ------------------------------------------------------------------------

UnifiedSearchResponse(query, expanded_phrases, total_matches, max_score, hits, execution_time_ms, engine_used) ==
    [query |-> query, expanded_phrases |-> expanded_phrases,
     total_matches |-> total_matches, max_score |-> max_score,
     hits |-> hits, execution_time_ms |-> execution_time_ms,
     engine_used |-> engine_used,
     domain |-> "None", confidence |-> "None", aggregations |-> "None",
     filters_applied |-> "None", engine_debug |-> "None"]

\* sqlite_engine.py 156-165: the compiled query is empty
EmptyQueryResponse(keyword, expanded_phrases) ==
    UnifiedSearchResponse(keyword, expanded_phrases, 0, 0, <<>>, 0, "sqlite")

\* sqlite_engine.py 204-214 and opensearch_engine.py 229-239: except Exception
ErrorResponse(keyword, expanded_phrases, engine_used) ==
    UnifiedSearchResponse(keyword, expanded_phrases, 0, 0, <<>>, 0, engine_used)

\* sqlite_engine.py 191-202: rows is the fetched page, total the COUNT(*)
SqliteResponse(keyword, expanded_phrases, rows, total_matches, time_ms) ==
    UnifiedSearchResponse(
        keyword, expanded_phrases, total_matches,
        IF rows # <<>>
        THEN Abs(SeqMin([i \in 1..Len(rows) |-> rows[i].bm25])) ELSE 1,
        _process_results_to_unified(rows, expanded_phrases, keyword),
        time_ms, "sqlite")

\* what the cluster answers to client.search: hits by descending _score
ClusterResponses ==
    {[hits |-> <<>>, max_score |-> 0, total |-> 0],
     [hits |-> << [tender_id |-> 4, title |-> Corpus[4].title, score |-> 2],
                  [tender_id |-> 2, title |-> Corpus[2].title, score |-> 1] >>,
      max_score |-> 2, total |-> 2]}

\* opensearch_engine.py 206-227 with _process_results_to_unified (276-324);
\* a max_score of None or 0 is replaced by 1.0
OpenSearchResponse(keyword, expanded_phrases, response, time_ms) ==
    LET max_score == IF response.max_score = 0 THEN 1 ELSE response.max_score
    IN  UnifiedSearchResponse(
            keyword, expanded_phrases, response.total, max_score,
            [i \in 1..Len(response.hits) |->
                LET hit == response.hits[i]
                    matched == PhrasesInTitle(expanded_phrases, hit.title)
                IN  [tender_id |-> hit.tender_id,
                     title |-> hit.title,
                     raw_score |-> hit.score,
                     similarity_percent |->
                         UnifiedSimilarity(hit.score, max_score),
                     matched_phrases |->
                         IF matched = <<>> THEN <<keyword>> ELSE matched,
                     exact_match |-> ExactMatch(expanded_phrases, hit.title)]],
            time_ms, "opensearch")

\* ------------------------------------------------------------------------
\* Score normalisation applied to a result page
\* ------------------------------------------------------------------------

\* largest number of rows in a result page
MaxRows == 3
\* raw bm25 scores of a page range over -MaxScore .. 0
MaxScore == 4

VARIABLES
    n_pc,         \* "input", "unified", "done"
    n_keyword,    \* the keyword searched
    n_rows,       \* the rows of the page, ORDER BY bm25_score ASC
    n_unified,    \* hits of engines/sqlite_engine.py
    n_enhanced,   \* hits of sqlite_fts5_engine.py
    yaml_file,    \* what is at SynonymManagerV2.synonyms_file
    y,            \* the attributes of the SynonymManagerV2 object
    ld,           \* the thread in _load_from_yaml: position and locals
    rd,           \* the thread in expand_keyword: position and locals
    reloads,      \* calls of reload_synonyms so far
    env,          \* configuration, database file, cluster, calling context
    engines,      \* the engine objects created so far: [type, ready]
    current_engine, \* UnifiedSearchManager.current_engine: an index into
                  \* engines, 0 for None
    sel,          \* the thread in _initialize_engine: position and locals
    sr,           \* the thread in search: position and locals
    h_valid_zero, \* Indicator of the zero-match responses returned so far
                  \* by searches in which nothing raised
    reload_count, \* calls of reload_engine so far
    q_pc,         \* "input", "unified", "done"
    q_phrases,    \* the expansion phrases handed to the query builders
    q_unified,    \* query of engines/sqlite_engine.py
    q_enhanced,   \* query of sqlite_fts5_engine.py
    info          \* the caller of get_engine_info and of the delegating
                  \* calls: the call made and the value it returned

normVars == <<n_pc, n_keyword, n_rows, n_unified, n_enhanced>>
synVars == <<yaml_file, y, ld, rd, reloads>>
mgrVars == <<env, engines, current_engine, sel, sr, h_valid_zero, reload_count>>
qryVars == <<q_pc, q_phrases, q_unified, q_enhanced>>
vars == <<normVars, synVars, mgrVars, qryVars, info>>

notNorm == <<synVars, mgrVars, qryVars, info>>
notSyn == <<normVars, mgrVars, qryVars, info>>
notMgr == <<normVars, synVars, qryVars, info>>
notQry == <<normVars, synVars, mgrVars, info>>

\* the variables of a part of the program that a specification leaves out
NormParked ==
    /\ n_pc = "parked"
    /\ n_keyword = <<>>
    /\ n_rows = <<>>
    /\ n_unified = <<>>
    /\ n_enhanced = <<>>

SynParked ==
    /\ yaml_file = "parked"
    /\ y = <<>>
    /\ ld = <<>>
    /\ rd = <<>>
    /\ reloads = 0

MgrParked ==
    /\ info = <<>>
    /\ env = <<>>
    /\ engines = <<>>
    /\ current_engine = 0
    /\ sel = <<>>
    /\ sr = <<>>
    /\ h_valid_zero = {}
    /\ reload_count = 0

QryParked ==
    /\ q_pc = "parked"
    /\ q_phrases = <<>>
    /\ q_unified = <<>>
    /\ q_enhanced = <<>>

\* the pages: each row a corpus record with a raw score, ascending by score
ResultPages ==
    {rows \in UNION {[1..n -> [tender_id : 1..MaxRows, bm25 : (0 - MaxScore)..0]] :
                        n \in 1..MaxRows} :
        /\ \A i \in 1..Len(rows) : rows[i].tender_id = i
        /\ \A i \in 1..(Len(rows) - 1) : rows[i].bm25 <= rows[i + 1].bm25}

RowOf(r) ==
    [title |-> Corpus[((r.tender_id - 1) % Len(Corpus)) + 1].title,
     tender_id |-> r.tender_id,
     bm25 |-> r.bm25]

\* keywords of the dictionary, and a plural the dictionary does not hold
\* which the stemming table matches with "Gateway" in a title
NormKeywords == {s_api, s_lan, <<"g","a","t","e","w","a","y","s">>}

NormInit ==
    /\ n_pc = "input"
    /\ n_keyword \in NormKeywords
    /\ n_rows \in {[i \in 1..Len(rows) |-> RowOf(rows[i])] : rows \in ResultPages}
    /\ n_unified = <<>>
    /\ n_enhanced = <<>>
    /\ SynParked
    /\ MgrParked
    /\ QryParked

ProcessUnified ==
    /\ n_pc = "input"
    /\ n_unified' = _process_results_to_unified(
                        n_rows, expand_keyword(n_keyword, 5).expanded_phrases,
                        n_keyword)
    /\ n_pc' = "unified"
    /\ UNCHANGED <<notNorm, n_keyword, n_rows, n_enhanced>>

ProcessEnhanced ==
    /\ n_pc = "unified"
    /\ n_enhanced' = _process_enhanced_search_results(
                         n_rows, expand_keyword(n_keyword, 6).expanded_phrases)
    /\ n_pc' = "done"
    /\ UNCHANGED <<notNorm, n_keyword, n_rows, n_unified>>

NormNext == ProcessUnified \/ ProcessEnhanced

SpecNorm == NormInit /\ [][NormNext]_vars

AllScoresEqual(rows) ==
    \A i, j \in 1..Len(rows) : rows[i].bm25 = rows[j].bm25

MaxPhrases == 2

\* phrases an expansion can hand over: dictionary phrases and the literal
\* keyword of a lookup miss, whatever characters the caller typed
QueryPhrases ==
    {<<"a","p","i">>,
     <<"r","e","s","t"," ","a","p","i">>,
     <<"@","#","$","%">>,
     <<"c","+","+"," ","d","e","v","e","l","o","p","e","r">>,
     <<"s","a","y"," ","\"","h","i","\"">>,
     <<"n","o","d","e",".","j","s">>,
     <<"o","'","n","e","i","l">>,
     <<" "," ">>}

QryInit ==
    /\ q_pc = "input"
    /\ q_phrases \in UNION {[1..n -> QueryPhrases] : n \in 0..MaxPhrases}
    /\ q_unified = <<>>
    /\ q_enhanced = <<>>
    /\ NormParked
    /\ SynParked
    /\ MgrParked

BuildUnified ==
    /\ q_pc = "input"
    /\ q_unified' = _build_fts5_query(q_phrases)
    /\ q_pc' = "unified"
    /\ UNCHANGED <<notQry, q_phrases, q_enhanced>>

BuildEnhanced ==
    /\ q_pc = "unified"
    /\ q_enhanced' = _build_enhanced_fts5_query(q_phrases)
    /\ q_pc' = "done"
    /\ UNCHANGED <<notQry, q_phrases, q_unified>>

QryNext == BuildUnified \/ BuildEnhanced

SpecQuery == QryInit /\ [][QryNext]_vars

\* ------------------------------------------------------------------------
\* SynonymManagerV2 under load, reload and lookup
\* ------------------------------------------------------------------------

\* calls of reload_synonyms in a run
MaxReloads == 1

\* the tokens looked up and the max_expansions passed
SynKeywords ==
    {<<" ","L","A","N"," ">>, <<" ","X","y","z">>,
     <<"a","p","i","_","g","a","t","e","w","a","y">>}

SynMaxExpansions == {1, 5}

\* the tokens looked up in the built-in SynonymManager
V1Keywords == SynKeywords \cup {<<"S","w","i","t","c","h">>}

\* the four attributes expand_keyword reads
DictOf(obj) ==
    [synonyms |-> obj.synonyms, weights |-> obj.weights,
     anti_patterns |-> obj.anti_patterns,
     domain_mapping |-> obj.domain_mapping]

IdleReader ==
    [pc |-> "idle", impl |-> "none", keyword |-> <<>>, max_expansions |-> 0,
     normalized_keyword |-> <<>>, limited_expansions |-> <<>>, weight |-> 0,
     domain |-> "", confidence |-> 0, anti_patterns |-> <<>>,
     result |-> <<>>, candidates |-> {}, open |-> FALSE]

\* entry of SynonymManagerV2.__init__: no attribute of the object is set
\* yet and _load_from_yaml is about to run; lookups start after it returns
SynInit ==
    /\ NormParked
    /\ MgrParked
    /\ QryParked
    /\ yaml_file \in StartFiles
    /\ y = [synonyms |-> EmptyDict, weights |-> EmptyDict,
            anti_patterns |-> EmptyDict, domain_mapping |-> <<>>,
            domains |-> <<>>, total_keywords |-> 0, config |-> "unset"]
    /\ ld = [pc |-> "L38", caller |-> "init", config |-> [kind |-> "none"],
             d |-> 0, k |-> 0, old_count |-> 0, old_domains |-> 0,
             result |-> [success |-> "none"], pre |-> DictOf(y),
             failed |-> FALSE]
    /\ rd = IdleReader
    /\ reloads = 0

\* the file is created, edited or deleted by the operator
FileChange ==
    /\ ld.pc \in {"idle", "L38", "L45"}
    /\ yaml_file' \in YamlFiles \ {yaml_file}
    /\ UNCHANGED <<notSyn, y, ld, rd, reloads>>

\* reload_synonyms, lines 201-205
reload_synonyms ==
    /\ ld.pc = "idle"
    /\ reloads < MaxReloads
    /\ reloads' = reloads + 1
    /\ ld' = [ld EXCEPT !.pc = "L38", !.caller = "reload",
                        !.config = [kind |-> "none"],
                        !.old_count = y.total_keywords,
                        !.old_domains = Len(y.domains),
                        !.result = [success |-> "none"],
                        !.pre = DictOf(y), !.failed = FALSE]
    /\ UNCHANGED <<notSyn, y, rd, yaml_file>>

\* line 40: if not yaml_path.exists()
LoadExists ==
    /\ ld.pc = "L38"
    /\ ld' = IF yaml_file.kind = "absent"
             THEN [ld EXCEPT !.pc = "F101", !.failed = TRUE]
             ELSE [ld EXCEPT !.pc = "L45"]
    /\ UNCHANGED <<notSyn, y, rd, yaml_file, reloads>>

\* lines 45-46: open() and yaml.safe_load(); either may raise
LoadParse ==
    /\ ld.pc = "L45"
    /\ ld' = IF yaml_file.kind \in {"absent", "unparseable"}
             THEN [ld EXCEPT !.pc = "F101", !.failed = TRUE]
             ELSE [ld EXCEPT !.pc = "L49", !.config = yaml_file]
    /\ UNCHANGED <<notSyn, y, rd, yaml_file, reloads>>

\* lines 49-52: the four dictionaries are replaced by empty ones
LoadReset ==
    /\ ld.pc \in {"L49", "L50", "L51", "L52"}
    /\ y' = CASE ld.pc = "L49" -> [y EXCEPT !.synonyms = EmptyDict]
              [] ld.pc = "L50" -> [y EXCEPT !.weights = EmptyDict]
              [] ld.pc = "L51" -> [y EXCEPT !.anti_patterns = EmptyDict]
              [] ld.pc = "L52" -> [y EXCEPT !.domain_mapping = <<>>]
    /\ ld' = [ld EXCEPT !.pc = CASE ld.pc = "L49" -> "L50"
                                 [] ld.pc = "L50" -> "L51"
                                 [] ld.pc = "L51" -> "L52"
                                 [] ld.pc = "L52" -> "L55"]
    /\ UNCHANGED <<notSyn, rd, yaml_file, reloads>>

\* line 55: self.domains = config.get('domains', []); a document that is
\* not a mapping has no get()
LoadDomains ==
    /\ ld.pc = "L55"
    /\ IF ld.config.kind # "mapping"
       THEN /\ ld' = [ld EXCEPT !.pc = "F101", !.failed = TRUE]
            /\ y' = y
       ELSE LET domains == DictGet(ld.config, "domains", <<>>)
                next == DomainLoop(ld.config, domains, 1)
            IN  /\ y' = [y EXCEPT !.domains = domains]
                /\ ld' = [ld EXCEPT !.pc = next.pc, !.d = next.d, !.k = next.k]
    /\ UNCHANGED <<notSyn, rd, yaml_file, reloads>>

\* lines 60-62: the domain's keyword set is created and its section entered
LoadDomainSection ==
    /\ ld.pc = "L60"
    /\ y' = [y EXCEPT !.domain_mapping =
                          MappingReset(y.domain_mapping, y.domains[ld.d])]
    /\ LET next == KeywordLoop(ld.config, y.domains, ld.d, 0)
       IN  ld' = IF next.pc = "raise"
                 THEN [ld EXCEPT !.pc = "F101", !.failed = TRUE]
                 ELSE [ld EXCEPT !.pc = next.pc, !.d = next.d, !.k = next.k]
    /\ UNCHANGED <<notSyn, rd, yaml_file, reloads>>

\* the item of the section the keyword loop is at
LoadEntry == ld.config.sections[y.domains[ld.d]].items[ld.k]

\* line 76
LoadSynonyms ==
    /\ ld.pc = "L76"
    /\ y' = [y EXCEPT !.synonyms =
                DictSet(y.synonyms, LoadKey(LoadEntry.keyword),
                        EntryExpansions(LoadEntry))]
    /\ ld' = [ld EXCEPT !.pc = "L77"]
    /\ UNCHANGED <<notSyn, rd, yaml_file, reloads>>

\* lines 77-78
LoadWeight ==
    /\ ld.pc = "L77"
    /\ y' = [y EXCEPT !.weights =
                DictSet(y.weights, LoadKey(LoadEntry.keyword),
                        EntryWeight(LoadEntry))]
    /\ ld' = [ld EXCEPT !.pc = IF EntryAntiPats(LoadEntry) # <<>>
                               THEN "L79" ELSE "L82"]
    /\ UNCHANGED <<notSyn, rd, yaml_file, reloads>>

\* line 79
LoadAntiPatterns ==
    /\ ld.pc = "L79"
    /\ y' = [y EXCEPT !.anti_patterns =
                DictSet(y.anti_patterns, LoadKey(LoadEntry.keyword),
                        EntryAntiPats(LoadEntry))]
    /\ ld' = [ld EXCEPT !.pc = "L82"]
    /\ UNCHANGED <<notSyn, rd, yaml_file, reloads>>

\* line 82, then the next item, the next domain or the end of the loops
LoadDomainMapping ==
    /\ ld.pc = "L82"
    /\ y' = [y EXCEPT !.domain_mapping =
                MappingAdd(y.domain_mapping, y.domains[ld.d],
                           LoadKey(LoadEntry.keyword))]
    /\ LET next == KeywordLoop(ld.config, y.domains, ld.d, ld.k)
       IN  ld' = [ld EXCEPT !.pc = next.pc, !.d = next.d, !.k = next.k]
    /\ UNCHANGED <<notSyn, rd, yaml_file, reloads>>

\* lines 85-86
LoadMetadata ==
    /\ ld.pc \in {"L85", "L86"}
    /\ y' = IF ld.pc = "L85"
            THEN [y EXCEPT !.config = DictGet(ld.config, "config", "empty")]
            ELSE [y EXCEPT !.total_keywords = Cardinality(DOMAIN y.synonyms)]
    /\ ld' = [ld EXCEPT !.pc = IF ld.pc = "L85" THEN "L86" ELSE "ret"]
    /\ UNCHANGED <<notSyn, rd, yaml_file, reloads>>

\* _load_fallback_synonyms, one assignment at a time (lines 101-122);
\* reached from line 42 and from the except clause of line 92
LoadFallback ==
    /\ ld.pc \in {"F101", "F108", "F109", "F114", "F120", "F121", "F122"}
    /\ y' = CASE ld.pc = "F101" -> [y EXCEPT !.synonyms = FallbackSynonyms]
              [] ld.pc = "F108" ->
                    [y EXCEPT !.weights = [k \in DOMAIN y.synonyms |-> 1000]]
              [] ld.pc = "F109" ->
                    [y EXCEPT !.anti_patterns = FallbackAntiPatterns]
              [] ld.pc = "F114" ->
                    [y EXCEPT !.domain_mapping = FallbackDomainMapping]
              [] ld.pc = "F120" ->
                    [y EXCEPT !.domains =
                        [i \in 1..Len(y.domain_mapping) |->
                            y.domain_mapping[i].domain]]
              [] ld.pc = "F121" ->
                    [y EXCEPT !.total_keywords = Cardinality(DOMAIN y.synonyms)]
              [] ld.pc = "F122" -> [y EXCEPT !.config = "2.0-fallback"]
    /\ ld' = [ld EXCEPT !.pc = CASE ld.pc = "F101" -> "F108"
                                 [] ld.pc = "F108" -> "F109"
                                 [] ld.pc = "F109" -> "F114"
                                 [] ld.pc = "F114" -> "F120"
                                 [] ld.pc = "F120" -> "F121"
                                 [] ld.pc = "F121" -> "F122"
                                 [] ld.pc = "F122" -> "ret"]
    /\ UNCHANGED <<notSyn, rd, yaml_file, reloads>>

\* _load_from_yaml returns, to __init__ or to reload_synonyms (lines
\* 207-215).  A lookup that overlapped the load records the dictionary
\* the load leaves behind.
LoadReturn ==
    /\ ld.pc = "ret"
    /\ ld' = IF ld.caller = "init" THEN [ld EXCEPT !.pc = "idle"]
             ELSE [ld EXCEPT !.pc = "idle",
                             !.result =
                                 [success |-> TRUE,
                                  previous_keywords |-> ld.old_count,
                                  current_keywords |-> y.total_keywords,
                                  keywords_added |->
                                      y.total_keywords - ld.old_count,
                                  previous_domains |-> ld.old_domains,
                                  current_domains |-> Len(y.domains)]]
    /\ rd' = IF rd.impl = "v2" /\ (rd.pc # "done" \/ rd.open)
             THEN [rd EXCEPT !.candidates = @ \cup {DictOf(y)},
                             !.open = FALSE]
             ELSE rd
    /\ UNCHANGED <<notSyn, y, yaml_file, reloads>>

\* expand_keyword, lines 136-142
ExpandBegin(keyword, max_expansions) ==
    /\ rd.pc = "idle"
    /\ ld.caller = "reload" \/ ld.pc = "idle"
    /\ LET normalized_keyword == Strip(Lower(keyword))
       IN  rd' = [IdleReader EXCEPT
                     !.pc = "L145", !.impl = "v2", !.keyword = keyword,
                     !.max_expansions = max_expansions,
                     !.normalized_keyword = normalized_keyword,
                     !.limited_expansions =
                         Prefix(DictGet(y.synonyms, normalized_keyword,
                                        <<normalized_keyword>>),
                                max_expansions),
                     !.candidates =
                         {IF ld.pc = "idle" THEN DictOf(y) ELSE ld.pre}]
    /\ UNCHANGED <<notSyn, y, ld, yaml_file, reloads>>

\* line 145
ExpandWeight ==
    /\ rd.pc = "L145"
    /\ rd' = [rd EXCEPT !.pc = "L148",
                        !.weight = DictGet(y.weights, rd.normalized_keyword, 500)]
    /\ UNCHANGED <<notSyn, y, ld, yaml_file, reloads>>

\* line 148
ExpandDomain ==
    /\ rd.pc = "L148"
    /\ rd' = [rd EXCEPT !.pc = "L151",
                        !.domain = _detect_domain(y.domain_mapping,
                                                  rd.normalized_keyword)]
    /\ UNCHANGED <<notSyn, y, ld, yaml_file, reloads>>

\* line 151
ExpandConfidence ==
    /\ rd.pc = "L151"
    /\ rd' = [rd EXCEPT !.pc = "L160",
                        !.confidence =
                            V2Confidence(y.synonyms, rd.normalized_keyword,
                                         rd.limited_expansions, rd.weight)]
    /\ UNCHANGED <<notSyn, y, ld, yaml_file, reloads>>

\* line 160
ExpandAntiPatterns ==
    /\ rd.pc = "L160"
    /\ rd' = [rd EXCEPT !.pc = "L162",
                        !.anti_patterns =
                            DictGet(y.anti_patterns, rd.normalized_keyword, <<>>)]
    /\ UNCHANGED <<notSyn, y, ld, yaml_file, reloads>>

\* lines 153-163: the result is built and returned
ExpandResult ==
    /\ rd.pc = "L162"
    /\ rd' = [rd EXCEPT
                 !.pc = "done",
                 !.open = (ld.pc # "idle"),
                 !.result =
                     [original_keyword |-> rd.keyword,
                      normalized_keyword |-> rd.normalized_keyword,
                      expanded_phrases |-> rd.limited_expansions,
                      domain |-> rd.domain,
                      confidence |-> rd.confidence,
                      weight |-> rd.weight,
                      anti_patterns |-> rd.anti_patterns,
                      expansion_count |-> Len(rd.limited_expansions),
                      source |-> IF rd.normalized_keyword \in DOMAIN y.synonyms
                                 THEN "yaml_config" ELSE "fallback"]]
    /\ UNCHANGED <<notSyn, y, ld, yaml_file, reloads>>

\* SynonymManager.expand_keyword: its dictionary never changes after
\* construction, so a call is one step
ExpandV1(keyword, max_expansions) ==
    /\ rd.pc = "idle"
    /\ rd' = [IdleReader EXCEPT
                 !.pc = "done", !.impl = "v1", !.keyword = keyword,
                 !.max_expansions = max_expansions,
                 !.result = expand_keyword(keyword, max_expansions)]
    /\ UNCHANGED <<notSyn, y, ld, yaml_file, reloads>>

\* the caller takes the result; a lookup that ended inside a reload is kept
\* until that reload has returned
ExpandReturn ==
    /\ rd.pc = "done"
    /\ ~rd.open
    /\ rd' = IdleReader
    /\ UNCHANGED <<notSyn, y, ld, yaml_file, reloads>>

SynNext ==
    \/ FileChange
    \/ reload_synonyms
    \/ LoadExists
    \/ LoadParse
    \/ LoadReset
    \/ LoadDomains
    \/ LoadDomainSection
    \/ LoadSynonyms
    \/ LoadWeight
    \/ LoadAntiPatterns
    \/ LoadDomainMapping
    \/ LoadMetadata
    \/ LoadFallback
    \/ LoadReturn
    \/ \E keyword \in SynKeywords, max_expansions \in SynMaxExpansions :
           ExpandBegin(keyword, max_expansions)
    \/ ExpandWeight
    \/ ExpandDomain
    \/ ExpandConfidence
    \/ ExpandAntiPatterns
    \/ ExpandResult
    \/ \E keyword \in V1Keywords, max_expansions \in SynMaxExpansions :
           ExpandV1(keyword, max_expansions)
    \/ ExpandReturn

SpecSyn == SynInit /\ [][SynNext]_vars

\* ------------------------------------------------------------------------
\* UnifiedSearchManager (search/manager.py): engine selection, reload_engine
\* and search
\* ------------------------------------------------------------------------

\* calls of reload_engine in a run
MaxEngineReloads == 1
\* execution_time_ms of an executed query ranges over 1..MaxExecTime
\* hundredths of a millisecond
MaxExecTime == 1

SearchKeywords ==
    {s_api, s_lan, <<"@","#","$","%">>, <<"e","-","m","a","i","l">>,
     <<"x","y","z">>}

SearchLimits == {1, 25}

\* the filters argument of search: None, or the dict of a SearchFilters
\* object, of which the model keeps service_categories and min_similarity
NoFilters == [given |-> FALSE, service_categories |-> {}, min_similarity |-> 0]

SearchFilterSets ==
    {NoFilters,
     [given |-> TRUE, service_categories |-> {"cloud"}, min_similarity |-> 50]}

\* states of the database file and of the OpenSearch cluster
DbStates == {"ok", "missing", "no_fts5"}
ClusterStates == {"green", "red", "timeout", "badclient"}

\* The search configuration and whether opensearch-py is importable
\* (engines/__init__.py): the default configuration, and the OpenSearch
\* request with nothing missing, without the library, disabled, and
\* without hosts
ConfigCases ==
    {[engine |-> "sqlite", os_available |-> FALSE, enabled |-> FALSE,
      hosts |-> <<>>],
     [engine |-> "opensearch", os_available |-> TRUE, enabled |-> TRUE,
      hosts |-> <<"localhost">>],
     [engine |-> "opensearch", os_available |-> FALSE, enabled |-> TRUE,
      hosts |-> <<"localhost">>],
     [engine |-> "opensearch", os_available |-> TRUE, enabled |-> FALSE,
      hosts |-> <<"localhost">>],
     [engine |-> "opensearch", os_available |-> TRUE, enabled |-> TRUE,
      hosts |-> <<>>]}

\* ctor_in_loop: the manager is constructed while an event loop runs
Environments ==
    {[engine |-> c.engine, os_available |-> c.os_available,
      enabled |-> c.enabled, hosts |-> c.hosts, db |-> db,
      cluster |-> cluster, ctor_in_loop |-> in_loop] :
        c \in ConfigCases, db \in DbStates, cluster \in ClusterStates,
        in_loop \in BOOLEAN}

\* the library check alone
OpenSearchInstalled(e) == e.os_available

\* the three configuration checks of _try_initialize_opensearch
OpenSearchConfigured(e) ==
    /\ e.os_available
    /\ e.enabled
    /\ e.hosts # <<>>

\* asyncio.run(asyncio.wait_for(engine.health_check(), timeout=5.0)):
\* asyncio.run raises RuntimeError when an event loop is already running
HealthOutcome(in_loop, cluster) ==
    IF in_loop THEN "raises"
    ELSE IF cluster = "timeout" THEN "timeout"
    ELSE IF cluster = "green" THEN "healthy"
    ELSE "unhealthy"

\* where the RuntimeError of _initialize_sqlite goes, by the call site
SqliteFailure(site) ==
    IF site = "unhealthy" THEN "except"
    ELSE IF site = "fallback" THEN "raise"
    ELSE "fallback"

\* the response fields other than the echo of the request
Indicator(response) ==
    [f \in (DOMAIN response) \ {"query", "expanded_phrases"} |-> response[f]]

\* no get_engine_info or delegating call is under way
IdleInfo == [call |-> "none", result |-> [answer |-> "none"]]

IdleSearch ==
    [pc |-> "idle", keyword |-> <<>>, filters |-> NoFilters, limit |-> 0,
     expansion |-> <<>>,
     engine |-> 0, used |-> {}, seen |-> {}, fts5_query |-> <<>>,
     queried |-> FALSE, raised |-> FALSE, escaped |-> FALSE,
     response |-> <<>>]

\* UnifiedSearchManager.__init__ has run up to line 51 (current_engine is
\* None) and calls _initialize_engine
MgrInit ==
    /\ NormParked
    /\ SynParked
    /\ QryParked
    /\ info = IdleInfo
    /\ env \in Environments
    /\ engines = <<>>
    /\ current_engine = 0
    /\ sel = [pc |-> "L65", caller |-> "init", site |-> "none", engine |-> 0,
              old_engine |-> 0, result |-> [success |-> "none"]]
    /\ sr = IdleSearch
    /\ h_valid_zero = {}
    /\ reload_count = 0

\* the manager object exists: __init__ has returned
Constructed == sel.caller = "reload" \/ sel.pc \in {"returned", "idle"}

\* the database file or the cluster changes state, between two runs of
\* the engine selection
EnvChange ==
    /\ sel.pc = "idle"
    /\ \/ \E db \in DbStates \ {env.db} : env' = [env EXCEPT !.db = db]
       \/ \E cluster \in ClusterStates \ {env.cluster} :
              env' = [env EXCEPT !.cluster = cluster]
    /\ UNCHANGED <<notMgr, engines, current_engine, sel, sr, h_valid_zero, reload_count>>

\* reload_engine, line 414
reload_engine ==
    /\ sel.pc = "idle"
    /\ reload_count < MaxEngineReloads
    /\ reload_count' = reload_count + 1
    /\ sel' = [sel EXCEPT !.pc = "L65", !.caller = "reload", !.site = "none",
                          !.engine = 0, !.old_engine = current_engine,
                          !.result = [success |-> "none"]]
    /\ UNCHANGED <<notMgr, env, engines, current_engine, sr, h_valid_zero>>

\* the active engine dropped before the new one is built
SelectBeginClearing ==
    /\ sel.pc = "L65"
    /\ current_engine' = 0
    /\ sel' = IF env.engine = "opensearch"
              THEN [sel EXCEPT !.pc = "L89"]
              ELSE [sel EXCEPT !.pc = "sq_new", !.site = "direct"]
    /\ UNCHANGED <<notMgr, env, engines, sr, h_valid_zero, reload_count>>

\* _initialize_engine, lines 65-74: the requested engine decides the branch
SelectBegin ==
    /\ sel.pc = "L65"
    /\ sel' = IF env.engine = "opensearch"
              THEN [sel EXCEPT !.pc = "L89"]
              ELSE [sel EXCEPT !.pc = "sq_new", !.site = "direct"]
    /\ UNCHANGED <<notMgr, env, engines, current_engine, sr, h_valid_zero, reload_count>>

\* _try_initialize_opensearch, lines 89-115
OpenSearchChecks ==
    /\ sel.pc = "L89"
    /\ sel' = IF OpenSearchConfigured(env)
              THEN [sel EXCEPT !.pc = "L118"]
              ELSE [sel EXCEPT !.pc = "sq_new", !.site = "check"]
    /\ UNCHANGED <<notMgr, env, engines, current_engine, sr, h_valid_zero, reload_count>>

\* line 118: OpenSearchEngine.__init__ starts; building the client may raise
OpenSearchNew ==
    /\ sel.pc = "L118"
    /\ IF env.cluster = "badclient"
       THEN /\ sel' = [sel EXCEPT !.pc = "sq_new", !.site = "except"]
            /\ engines' = engines
       ELSE /\ engines' = Append(engines, [type |-> "opensearch", ready |-> FALSE])
            /\ sel' = [sel EXCEPT !.pc = "os_init", !.engine = Len(engines) + 1]
    /\ UNCHANGED <<notMgr, env, current_engine, sr, h_valid_zero, reload_count>>

\* OpenSearchEngine.__init__ returns (opensearch_engine.py 45-59)
OpenSearchReady ==
    /\ sel.pc = "os_init"
    /\ engines' = [engines EXCEPT ![sel.engine].ready = TRUE]
    /\ sel' = [sel EXCEPT !.pc = "L121"]
    /\ UNCHANGED <<notMgr, env, current_engine, sr, h_valid_zero, reload_count>>

\* the engine returned whatever the health check said
OpenSearchHealthIgnored ==
    /\ sel.pc = "L121"
    /\ sel' = [sel EXCEPT !.pc = "assign"]
    /\ UNCHANGED <<notMgr, env, engines, current_engine, sr, h_valid_zero, reload_count>>

\* lines 121-150: the health check; an engine that fails it is dropped
OpenSearchHealth ==
    /\ sel.pc = "L121"
    /\ LET outcome == HealthOutcome(IF sel.caller = "init"
                                    THEN env.ctor_in_loop ELSE TRUE,
                                    env.cluster)
       IN  IF outcome = "healthy"
           THEN /\ sel' = [sel EXCEPT !.pc = "assign"]
                /\ engines' = engines
           ELSE /\ sel' = [sel EXCEPT
                              !.pc = "sq_new", !.engine = 0,
                              !.site = IF outcome = "raises" THEN "except"
                                       ELSE outcome]
                /\ engines' = SubSeq(engines, 1, Len(engines) - 1)
    /\ UNCHANGED <<notMgr, env, current_engine, sr, h_valid_zero, reload_count>>

\* _initialize_sqlite raised RuntimeError at the call site sel.site
SqliteRaised ==
    LET next == SqliteFailure(sel.site)
    IN  IF next # "raise"
        THEN [sel EXCEPT !.pc = "sq_new", !.site = next, !.engine = 0]
        ELSE [sel EXCEPT !.pc = "raised", !.engine = 0]

\* the engine object made the active engine as soon as it is allocated
SqliteNewPublishing ==
    /\ sel.pc = "sq_new"
    /\ IF env.db = "missing"
       THEN /\ sel' = SqliteRaised
            /\ UNCHANGED <<engines, current_engine>>
       ELSE /\ engines' = Append(engines, [type |-> "sqlite", ready |-> FALSE])
            /\ current_engine' = Len(engines) + 1
            /\ sel' = [sel EXCEPT !.pc = "sq_init", !.engine = Len(engines) + 1]
    /\ UNCHANGED <<notMgr, env, sr, h_valid_zero, reload_count>>

\* SQLiteFTS5Engine.__init__, lines 49-57: FileNotFoundError when the
\* database file is missing
SqliteNew ==
    /\ sel.pc = "sq_new"
    /\ IF env.db = "missing"
       THEN /\ sel' = SqliteRaised
            /\ engines' = engines
       ELSE /\ engines' = Append(engines, [type |-> "sqlite", ready |-> FALSE])
            /\ sel' = [sel EXCEPT !.pc = "sq_init", !.engine = Len(engines) + 1]
    /\ UNCHANGED <<notMgr, env, current_engine, sr, h_valid_zero, reload_count>>

\* SQLiteFTS5Engine.__init__, lines 59-69: optimizations and the FTS5 check
SqliteReady ==
    /\ sel.pc = "sq_init"
    /\ IF env.db # "ok"
       THEN /\ sel' = SqliteRaised
            /\ engines' = SubSeq(engines, 1, Len(engines) - 1)
       ELSE /\ engines' = [engines EXCEPT ![sel.engine].ready = TRUE]
            /\ sel' = [sel EXCEPT !.pc = "assign"]
    /\ UNCHANGED <<notMgr, env, current_engine, sr, h_valid_zero, reload_count>>

\* self.current_engine = <the engine returned> (lines 72, 74, 78)
SelectAssign ==
    /\ sel.pc = "assign"
    /\ current_engine' = sel.engine
    /\ sel' = [sel EXCEPT !.pc = "ret"]
    /\ sr' = IF sr.pc \notin {"idle", "done"}
             THEN [sr EXCEPT !.seen = @ \cup {sel.engine}] ELSE sr
    /\ UNCHANGED <<notMgr, env, engines, h_valid_zero, reload_count>>

\* _initialize_engine returns: __init__ returns, reload_engine returns its
\* success result (lines 417-423)
SelectReturn ==
    /\ sel.pc = "ret"
    /\ sel' = IF sel.caller = "init" THEN [sel EXCEPT !.pc = "returned"]
              ELSE [sel EXCEPT
                       !.pc = "returned",
                       !.result =
                           [success |-> TRUE,
                            old_engine |-> engines[sel.old_engine].type,
                            new_engine |-> engines[current_engine].type]]
    /\ UNCHANGED <<notMgr, env, engines, current_engine, sr, h_valid_zero, reload_count>>

\* the RuntimeError logged and dropped: the caller goes on without an engine
SelectRaiseSwallowed ==
    /\ sel.pc = "raised"
    /\ sel' = IF sel.caller = "init" THEN [sel EXCEPT !.pc = "returned"]
              ELSE [sel EXCEPT !.pc = "returned",
                               !.result = [success |-> FALSE]]
    /\ UNCHANGED <<notMgr, env, engines, current_engine, sr, h_valid_zero, reload_count>>

\* the RuntimeError leaves _initialize_engine: it leaves __init__ too, and
\* reload_engine catches it (lines 424-429)
SelectRaise ==
    /\ sel.pc = "raised"
    /\ sel' = IF sel.caller = "init" THEN [sel EXCEPT !.pc = "ctor_raised"]
              ELSE [sel EXCEPT !.pc = "returned",
                               !.result = [success |-> FALSE]]
    /\ UNCHANGED <<notMgr, env, engines, current_engine, sr, h_valid_zero, reload_count>>

\* the caller of __init__ or of reload_engine goes on
SelectDone ==
    /\ sel.pc = "returned"
    /\ sel' = [sel EXCEPT !.pc = "idle"]
    /\ UNCHANGED <<notMgr, env, engines, current_engine, sr, h_valid_zero, reload_count>>

\* search, line 203
SearchBegin(keyword, filters, limit) ==
    /\ sr.pc = "idle"
    /\ Constructed
    /\ sr' = [IdleSearch EXCEPT
                 !.pc = "L206", !.keyword = keyword, !.filters = filters,
                 !.limit = limit,
                 !.expansion = expand_keyword(keyword, 5),
                 !.seen = {current_engine}]
    /\ UNCHANGED <<notMgr, env, engines, current_engine, sel, h_valid_zero, reload_count>>

\* line 206: self.current_engine is read and execute_search called on it;
\* None has no execute_search
SearchEngineRead ==
    /\ sr.pc = "L206"
    /\ sr' = IF current_engine = 0
             THEN [sr EXCEPT !.pc = "done", !.escaped = TRUE]
             ELSE [sr EXCEPT !.engine = current_engine,
                             !.pc = IF engines[current_engine].type = "sqlite"
                                    THEN "sq_compile" ELSE "os_search"]
    /\ UNCHANGED <<notMgr, env, engines, current_engine, sel, h_valid_zero, reload_count>>

\* SQLiteFTS5Engine.execute_search, lines 150-165; the filters parameter
\* is not read anywhere in the method
SqliteCompile ==
    /\ sr.pc = "sq_compile"
    /\ LET fts5_query == _build_fts5_query(sr.expansion.expanded_phrases)
       IN  sr' = IF fts5_query = <<>>
                 THEN [sr EXCEPT
                          !.pc = "L216", !.used = @ \cup {sr.engine},
                          !.response =
                              EmptyQueryResponse(
                                  sr.keyword, sr.expansion.expanded_phrases)]
                 ELSE [sr EXCEPT !.pc = "sq_match", !.fts5_query = fts5_query,
                                 !.used = @ \cup {sr.engine}]
    /\ UNCHANGED <<notMgr, env, engines, current_engine, sel, h_valid_zero, reload_count>>

\* lines 168-214: the two MATCH statements, the response, the except clause
SqliteMatch ==
    /\ sr.pc = "sq_match"
    /\ LET terms == FtsLex(sr.fts5_query)
           phrases == sr.expansion.expanded_phrases
       IN  IF env.db # "ok" \/ ~FtsValid(terms)
           THEN sr' = [sr EXCEPT
                          !.pc = "L216", !.used = @ \cup {sr.engine},
                          !.queried = TRUE, !.raised = TRUE,
                          !.response = ErrorResponse(sr.keyword, phrases, "sqlite")]
           ELSE LET matched == SelectSeq(Corpus, LAMBDA row : FtsMatch(terms, row))
                IN  \E rows \in RankedRows(matched), time_ms \in 1..MaxExecTime :
                        sr' = [sr EXCEPT
                                  !.pc = "L216", !.used = @ \cup {sr.engine},
                                  !.queried = TRUE,
                                  !.response =
                                      SqliteResponse(sr.keyword, phrases,
                                                     Prefix(rows, sr.limit),
                                                     Len(matched), time_ms)]
    /\ UNCHANGED <<notMgr, env, engines, current_engine, sel, h_valid_zero, reload_count>>

\* OpenSearchEngine.execute_search, lines 171-239; the query body is built
\* from the phrases, limit and offset alone
OpenSearchSearch ==
    /\ sr.pc = "os_search"
    /\ LET phrases == sr.expansion.expanded_phrases
       IN  IF env.cluster # "green"
           THEN sr' = [sr EXCEPT
                          !.pc = "L216", !.used = @ \cup {sr.engine},
                          !.queried = TRUE, !.raised = TRUE,
                          !.response =
                              ErrorResponse(sr.keyword, phrases, "opensearch")]
           ELSE \E response \in ClusterResponses, time_ms \in 1..MaxExecTime :
                    sr' = [sr EXCEPT
                              !.pc = "L216", !.used = @ \cup {sr.engine},
                              !.queried = TRUE,
                              !.response =
                                  OpenSearchResponse(sr.keyword, phrases,
                                                     response, time_ms)]
    /\ UNCHANGED <<notMgr, env, engines, current_engine, sel, h_valid_zero, reload_count>>

\* the engine's response returned as the engine built it
SearchWithoutStamp ==
    /\ sr.pc = "L216"
    /\ sr' = [sr EXCEPT !.pc = "done"]
    /\ UNCHANGED <<notMgr, env, engines, current_engine, sel, h_valid_zero, reload_count>>

\* search, lines 216-219: domain and confidence of the expansion are added
\* and the response returned
SearchStamp ==
    /\ sr.pc = "L216"
    /\ LET result == [sr.response EXCEPT
                         !.domain = sr.expansion.domain,
                         !.confidence = sr.expansion.confidence]
       IN  /\ sr' = [sr EXCEPT !.pc = "done", !.response = result]
           /\ h_valid_zero' =
                  IF ~sr.raised /\ result.total_matches = 0
                  THEN h_valid_zero \cup {Indicator(result)}
                  ELSE h_valid_zero
    /\ UNCHANGED <<notMgr, env, engines, current_engine, sel, reload_count>>

\* the caller has the response (or the exception)
SearchReturn ==
    /\ sr.pc = "done"
    /\ sr' = IdleSearch
    /\ UNCHANGED <<notMgr, env, engines, current_engine, sel, h_valid_zero, reload_count>>

Next ==
    \/ EnvChange
    \/ reload_engine
    \/ SelectBegin
    \/ OpenSearchChecks
    \/ OpenSearchNew
    \/ OpenSearchReady
    \/ OpenSearchHealth
    \/ SqliteNew
    \/ SqliteReady
    \/ SelectAssign
    \/ SelectReturn
    \/ SelectRaise
    \/ SelectDone
    \/ SearchBegin(s_lan, NoFilters, 25)
    \/ SearchEngineRead
    \/ SqliteCompile
    \/ SqliteMatch
    \/ OpenSearchSearch
    \/ SearchStamp
    \/ SearchReturn

\* engine selection and reload_engine, with searches for one keyword
Spec == MgrInit /\ [][Next]_vars

\* a constructed manager whose engine selection is over, under the
\* configuration that requests OpenSearch: the OpenSearch engine, or the
\* SQLite engine when the cluster failed the health check
SearchInit ==
    /\ NormParked
    /\ SynParked
    /\ QryParked
    /\ info = IdleInfo
    /\ env \in {e \in Environments : ~e.ctor_in_loop /\ OpenSearchConfigured(e)}
    /\ engines \in {<<[type |-> "sqlite", ready |-> TRUE]>>,
                     <<[type |-> "opensearch", ready |-> TRUE]>>}
    /\ current_engine = 1
    /\ sel = [pc |-> "idle", caller |-> "init", site |-> "none", engine |-> 1,
              old_engine |-> 0, result |-> [success |-> "none"]]
    /\ sr = IdleSearch
    /\ h_valid_zero = {}
    /\ reload_count = 0

SearchNext ==
    \/ EnvChange
    \/ \E keyword \in SearchKeywords, filters \in SearchFilterSets,
          limit \in SearchLimits :
           SearchBegin(keyword, filters, limit)
    \/ SearchEngineRead
    \/ SqliteCompile
    \/ SqliteMatch
    \/ OpenSearchSearch
    \/ SearchStamp
    \/ SearchReturn

\* searches on the engine a finished selection left active
SpecSearch == SearchInit /\ [][SearchNext]_vars

\* ------------------------------------------------------------------------
\* The calls of the manager that only report: get_engine_info with
\* _get_recommendation, and the calls delegated to the active engine
\* ------------------------------------------------------------------------

\* SELECT COUNT(*) FROM tenders / client.count: the sizes of the corpus
RecordCounts == {Len(Corpus), 100001}

\* health_check of the engine: both engines turn every failure into 'red'
EngineHealth(engine_type, e) ==
    IF engine_type = "sqlite"
    THEN (IF e.db = "ok" THEN "green" ELSE "red")
    ELSE (IF e.cluster = "green" THEN "green" ELSE "red")

\* get_statistics of the engine, avg_query_time_ms in hundredths of a
\* millisecond; a failure gives the all-zero statistics
EngineStatistics(engine_type, e, record_count) ==
    IF engine_type = "sqlite"
    THEN (IF e.db = "ok"
          THEN [record_count |-> record_count, avg_query_time_ms |-> 115]
          ELSE [record_count |-> 0, avg_query_time_ms |-> 0])
    ELSE (IF e.cluster = "green"
          THEN [record_count |-> record_count, avg_query_time_ms |-> 0]
          ELSE [record_count |-> 0, avg_query_time_ms |-> 0])

\* the classification with the comparisons made inclusive
RecommendationAtThreshold(current_type, stats) ==
    IF current_type = "sqlite"
    THEN IF stats.record_count >= 100000
         THEN [should_consider_opensearch |-> TRUE,
               reason |-> "Dataset exceeds 100K records",
               urgency |-> "medium",
               current_performance |-> "acceptable"]
         ELSE IF stats.avg_query_time_ms >= 50000
         THEN [should_optimize |-> TRUE,
               reason |-> "Query latency elevated",
               urgency |-> "medium",
               current_performance |-> "suboptimal"]
         ELSE [should_consider_opensearch |-> FALSE,
               reason |-> "Current engine optimal for workload",
               current_performance |-> "excellent",
               action |-> "None"]
    ELSE [engine_status |-> "optimal", current_performance |-> "excellent"]

\* manager.py 316-385: the returned dict without its 'message' and its
\* list of suggested actions
_get_recommendation(current_type, stats) ==
    IF current_type = "sqlite"
    THEN IF stats.record_count > 100000
         THEN [should_consider_opensearch |-> TRUE,
               reason |-> "Dataset exceeds 100K records",
               urgency |-> "medium",
               current_performance |-> "acceptable"]
         ELSE IF stats.avg_query_time_ms > 50000
         THEN [should_optimize |-> TRUE,
               reason |-> "Query latency elevated",
               urgency |-> "medium",
               current_performance |-> "suboptimal"]
         ELSE [should_consider_opensearch |-> FALSE,
               reason |-> "Current engine optimal for workload",
               current_performance |-> "excellent",
               action |-> "None"]
    ELSE [engine_status |-> "optimal", current_performance |-> "excellent"]

\* what the engine answers to a delegated call: the SQLite engine reads its
\* filter options from the database, every other answer is a fixed stub
DelegateResult(engine_type, call, e) ==
    IF engine_type = "sqlite" /\ call = "get_filter_options"
    THEN (IF e.db = "ok" THEN [answer |-> "options"] ELSE [answer |-> "error"])
    ELSE [answer |-> "stub"]

DelegatedCalls ==
    {"get_service_firm_heatmap", "get_geographic_data", "get_financial_data",
     "get_filter_options"}

\* the active engine replaced by the engine built first
GetEngineInfoSwitching ==
    /\ Constructed
    /\ sr.pc = "idle"
    /\ info.call = "none"
    /\ current_engine \in 1..Len(engines)
    /\ current_engine' = 1
    /\ info' = [call |-> "get_engine_info", result |-> [answer |-> "none"]]
    /\ UNCHANGED <<normVars, synVars, qryVars, env, engines, sel, sr, h_valid_zero, reload_count>>

\* get_engine_info, manager.py 284-314
get_engine_info ==
    /\ Constructed
    /\ sr.pc = "idle"
    /\ info.call = "none"
    /\ current_engine \in 1..Len(engines)
    /\ \E record_count \in RecordCounts :
          LET engine_type == engines[current_engine].type
              stats == EngineStatistics(engine_type, env, record_count)
          IN  info' = [call |-> "get_engine_info",
                       result |->
                          [engine_type |-> engine_type,
                           health |-> EngineHealth(engine_type, env),
                           statistics |-> stats,
                           recommendation |->
                               _get_recommendation(engine_type, stats)]]
    /\ UNCHANGED <<normVars, synVars, qryVars, mgrVars>>

\* get_service_firm_heatmap, get_geographic_data, get_financial_data and
\* get_filter_options, manager.py 221-273: one call on the active engine
DelegatedCall(call) ==
    /\ Constructed
    /\ sr.pc = "idle"
    /\ info.call = "none"
    /\ current_engine \in 1..Len(engines)
    /\ info' = [call |-> call,
                result |-> DelegateResult(engines[current_engine].type,
                                          call, env)]
    /\ UNCHANGED <<normVars, synVars, qryVars, mgrVars>>

\* the caller has the value
InfoReturn ==
    /\ info.call # "none"
    /\ info' = IdleInfo
    /\ UNCHANGED <<normVars, synVars, qryVars, mgrVars>>

\* the same caller searches, between two reporting calls
ClientSearch ==
    /\ info.call = "none"
    /\ SearchBegin(<<"x","y","z">>, NoFilters, 1)

FrameNext ==
    \/ EnvChange
    \/ reload_engine
    \/ SelectBegin
    \/ OpenSearchChecks
    \/ OpenSearchNew
    \/ OpenSearchReady
    \/ OpenSearchHealth
    \/ SqliteNew
    \/ SqliteReady
    \/ SelectAssign
    \/ SelectReturn
    \/ SelectRaise
    \/ SelectDone
    \/ ClientSearch
    \/ SearchEngineRead
    \/ SqliteCompile
    \/ SqliteMatch
    \/ OpenSearchSearch
    \/ SearchStamp
    \/ SearchReturn
    \/ get_engine_info
    \/ \E call \in DelegatedCalls : DelegatedCall(call)
    \/ InfoReturn

\* construction, reload_engine, and one caller that searches and asks for
\* reports
SpecFrame == MgrInit /\ [][FrameNext]_vars

\* ------------------------------------------------------------------------
\* _get_recommendation on statistics snapshots
\* ------------------------------------------------------------------------

\* EngineStatistics objects: record counts and average latencies (in
\* hundredths of a millisecond) on both sides of the two thresholds
StatsSnapshots ==
    [record_count : {0, 4, 99999, 100000, 100001, 250000},
     avg_query_time_ms : {0, 115, 49999, 50000, 50001, 120000}]

\* a constructed manager whose active engine is of either type, and a
\* caller holding a snapshot
RecInit ==
    /\ NormParked
    /\ SynParked
    /\ QryParked
    /\ env = <<>>
    /\ sel = <<>>
    /\ sr = <<>>
    /\ h_valid_zero = {}
    /\ reload_count = 0
    /\ engines \in {<<[type |-> t, ready |-> TRUE]>> : t \in {"sqlite", "opensearch"}}
    /\ current_engine = 1
    /\ info \in {[call |-> "none", stats |-> stats, result |-> [answer |-> "none"]] :
                    stats \in StatsSnapshots}

\* self._get_recommendation(stats)
Recommend ==
    /\ info.call = "none"
    /\ info' = [info EXCEPT
                  !.call = "_get_recommendation",
                  !.result = _get_recommendation(engines[current_engine].type,
                                                 info.stats)]
    /\ UNCHANGED <<normVars, synVars, qryVars, mgrVars>>

SpecRec == RecInit /\ [][Recommend]_vars

\* ------------------------------------------------------------------------
\* Properties of engine selection, reload_engine and search
\* ------------------------------------------------------------------------

\* OpenSearch is requested and cannot be started: the library is missing,
\* it is disabled, no hosts are configured, the client cannot be built, the
\* cluster is unhealthy, the health check times out, or it raises because
\* an event loop is running
OpenSearchCannotStart(e) ==
    /\ e.engine = "opensearch"
    /\ \/ ~e.os_available
       \/ ~e.enabled
       \/ e.hosts = <<>>
       \/ e.cluster \in {"badclient", "red", "timeout"}
       \/ e.ctor_in_loop

\* C2: when OpenSearch is requested and cannot be started, and the SQLite
\* engine is constructible, construction of the manager completes without
\* raising and the active engine is the SQLite engine.
C2_FallbackToSqlite ==
    (/\ sel.caller = "init"
     /\ sel.pc \in {"raised", "ctor_raised", "returned"}
     /\ OpenSearchCannotStart(env)
     /\ env.db = "ok") =>
        /\ sel.pc = "returned"
        /\ current_engine \in 1..Len(engines)
        /\ engines[current_engine] = [type |-> "sqlite", ready |-> TRUE]

C2_Witness ==
    /\ sel.caller = "init"
    /\ sel.pc = "returned"
    /\ env.engine = "opensearch"
    /\ OpenSearchConfigured(env)
    /\ ~env.ctor_in_loop
    /\ env.cluster = "red"
    /\ env.db = "ok"
    /\ current_engine = 1
    /\ engines[1].type = "sqlite"

\* C3: once the manager is constructed, under any interleaving of search
\* and reload_engine the active engine is a fully constructed engine, and
\* every search executes on one engine only, an engine that was the active
\* engine at some point during that search.
C3_ActiveEngineAlwaysReady ==
    /\ Constructed =>
           /\ current_engine \in 1..Len(engines)
           /\ engines[current_engine].ready
    /\ sr.pc \notin {"idle", "L206"} =>
           /\ ~sr.escaped
           /\ sr.engine \in sr.seen
           /\ sr.used \subseteq {sr.engine}
           /\ sr.engine \in 1..Len(engines)
           /\ engines[sr.engine].ready

C3_Witness ==
    /\ sr.pc = "done"
    /\ ~sr.escaped
    /\ sr.used = {sr.engine}
    /\ sr.engine # current_engine
    /\ current_engine \in sr.seen
    /\ sr.response # <<>>

\* C6: when reload_engine is called and the SQLite engine cannot be
\* constructed, reload_engine returns success = false without raising, the
\* active engine is the engine that was active before the call, and a
\* search still runs on it.
C6_FailedReloadKeepsEngine ==
    (sel.caller = "reload" /\ sel.pc = "returned" /\ env.db # "ok") =>
        /\ sel.result.success = FALSE
        /\ current_engine = sel.old_engine
        /\ current_engine \in 1..Len(engines)
        /\ engines[current_engine].ready
        /\ (sr.pc = "done" /\ sr.seen = {current_engine}) =>
               /\ ~sr.escaped
               /\ sr.engine = current_engine
               /\ sr.response # <<>>

C6_Witness ==
    /\ sel.caller = "reload"
    /\ sel.pc = "returned"
    /\ env.db # "ok"
    /\ sel.result.success = FALSE
    /\ current_engine = sel.old_engine
    /\ sr.pc = "done"
    /\ sr.seen = {current_engine}
    /\ sr.engine = current_engine

\* C7: when the backend raises during a search, no exception reaches the
\* caller and the response has zero matches, no hits, and a failure
\* indicator: it differs, in the fields that do not echo the request, from
\* every zero-match response of a search in which nothing raised.
C7_FailureIsIndicated ==
    (sr.pc = "done" /\ sr.raised) =>
        /\ ~sr.escaped
        /\ sr.response.total_matches = 0
        /\ sr.response.hits = <<>>
        /\ Indicator(sr.response) \notin h_valid_zero

\* every character of every phrase is a reserved character or whitespace
OnlyReservedChars(phrases) ==
    \A i \in 1..Len(phrases) : Range(phrases[i]) \subseteq ReservedChars \cup Whitespace

C9_ApiFindsRestApiGateway ==
    (/\ sr.pc = "done"
     /\ sr.keyword = s_api
     /\ sr.limit = 25
     /\ ~sr.raised
     /\ engines[sr.engine].type = "sqlite") =>
        \E i \in 1..Len(sr.response.hits) :
            LET hit == sr.response.hits[i]
            IN  /\ hit.title = t_rest_api_gateway
                /\ hit.similarity_percent = 100
                /\ \E j \in 1..Len(hit.matched_phrases) :
                       Contains(Lower(hit.matched_phrases[j]), Lower(hit.title))

\* the keys a loaded dictionary can hold: those of the fallback dictionary
\* and the load keys of every item of every document
SynKnownKeys ==
    (DOMAIN FallbackSynonyms) \cup
    UNION {UNION {{LoadKey(doc.sections[dn].items[i].keyword) :
                      i \in 1..Len(doc.sections[dn].items)} :
                  dn \in DOMAIN doc.sections} :
           doc \in {f \in YamlFiles : f.kind = "mapping"}}

\* the token's normalized form is a key of no dictionary of the manager
UnknownToken(impl, keyword) ==
    IF impl = "v1"
    THEN Strip(Lower(keyword)) \notin DOMAIN _initialize_comprehensive_synonyms
    ELSE Strip(Lower(keyword)) \notin SynKnownKeys

\* C4: a lookup that runs concurrently with reload_synonyms returns what
\* expand_keyword computes on the dictionary before the reload or on the
\* dictionary after it, never a result read from an emptied or partly
\* rebuilt dictionary.
C4_ExpandSeesOneDictionary ==
    (rd.pc = "done" /\ rd.impl = "v2" /\ ~rd.open) =>
        rd.result \in {V2Expand(dict, rd.keyword, rd.max_expansions) :
                          dict \in rd.candidates}

\* C5: when reload_synonyms could not load its source (file missing,
\* unparseable, or raising while processed) the dictionary after the call
\* is the dictionary before it and the returned value reports failure.
C5_FailedReloadKeepsDictionary ==
    (ld.pc = "idle" /\ ld.caller = "reload" /\ ld.failed) =>
        /\ DictOf(y) = ld.pre
        /\ ld.result.success = FALSE

\* C10: expanding a token whose normalized form is not a dictionary key,
\* with max_expansions >= 1, returns exactly one phrase, the normalized
\* token, and the fixed confidence of unknown tokens, which is below 0.5.
C10_UnknownTokenExpansion ==
    (rd.pc = "done" /\ rd.max_expansions >= 1
        /\ UnknownToken(rd.impl, rd.keyword)) =>
        /\ rd.result.expanded_phrases = <<Strip(Lower(rd.keyword))>>
        /\ rd.result.confidence = (IF rd.impl = "v1" THEN 300 ELSE 150)
        /\ rd.result.confidence < 500

C10_Witness ==
    /\ rd.pc = "done"
    /\ rd.impl = "v2"
    /\ rd.max_expansions >= 1
    /\ UnknownToken(rd.impl, rd.keyword)
    /\ rd.keyword # Strip(Lower(rd.keyword))
    /\ rd.result.expanded_phrases = <<Strip(Lower(rd.keyword))>>
    /\ rd.result.confidence = 150

\* C11: expanding a keyword that is a key of the loaded dictionary, with
\* max_expansions >= 1 and no load running during the call, returns at least
\* one phrase and a confidence between 0.0 and 1.0.
C11_KnownKeywordExpansion ==
    (/\ rd.pc = "done"
     /\ rd.max_expansions >= 1
     /\ IF rd.impl = "v1"
        THEN Strip(Lower(rd.keyword)) \in DOMAIN _initialize_comprehensive_synonyms
        ELSE /\ rd.candidates = {DictOf(y)}
             /\ Strip(Lower(rd.keyword)) \in DOMAIN y.synonyms
             /\ rd.result = V2Expand(DictOf(y), rd.keyword, rd.max_expansions)) =>
        /\ Len(rd.result.expanded_phrases) >= 1
        /\ rd.result.confidence >= 0
        /\ rd.result.confidence <= 1000

\* the double quotes of a query open and close quoted terms of several
\* words: they pair up in order, an opening quote starts a term, a closing
\* quote ends one, and a space lies between the two
QuotesDelimitTerms(query) ==
    LET quotes == {i \in 1..Len(query) : query[i] = "\""}
        rank(i) == Cardinality({j \in quotes : j <= i})
    IN  /\ Cardinality(quotes) % 2 = 0
        /\ \A i \in quotes :
              IF rank(i) % 2 = 1
              THEN /\ i = 1 \/ query[i - 1] = " "
                   /\ \E j \in quotes :
                         /\ rank(j) = rank(i) + 1
                         /\ \E k \in (i + 1)..(j - 1) : query[k] = " "
              ELSE i = Len(query) \/ query[i + 1] = " "

NoReservedChars(query) ==
    /\ \A i \in 1..Len(query) : query[i] \notin (ReservedChars \ {"\""})
    /\ QuotesDelimitTerms(query)

\* C12: whatever the phrases, the compiled full-text query of either SQLite
\* engine holds none of the reserved characters, and a double quote only as
\* the opening or closing delimiter of a quoted term of several words.
C12_NoReservedInQuery ==
    /\ q_pc \in {"unified", "done"} => NoReservedChars(q_unified)
    /\ q_pc = "done" => NoReservedChars(q_enhanced)

C14_HitsInRelevanceOrder ==
    /\ n_pc \in {"unified", "done"} =>
          /\ Len(n_unified) = Len(n_rows)
          /\ \A i \in 1..Len(n_unified) :
                n_unified[i].tender_id = n_rows[i].tender_id
          /\ \A i \in 1..(Len(n_unified) - 1) :
                /\ n_unified[i].raw_score >= n_unified[i + 1].raw_score
                /\ n_unified[i].similarity_percent >=
                       n_unified[i + 1].similarity_percent
    /\ n_pc = "done" =>
          /\ Len(n_enhanced) = Len(n_rows)
          /\ \A i \in 1..Len(n_enhanced) :
                n_enhanced[i].tender_id = n_rows[i].tender_id
          /\ \A i \in 1..(Len(n_enhanced) - 1) :
                n_enhanced[i].similarity_percent >=
                    n_enhanced[i + 1].similarity_percent

\* a page of three rows with three different scores, processed by both
\* engines, whose percentages fall strictly
C14_Witness ==
    /\ n_pc = "done"
    /\ Len(n_rows) = 3
    /\ n_rows[1].bm25 < n_rows[2].bm25
    /\ n_rows[2].bm25 < n_rows[3].bm25
    /\ n_unified[1].similarity_percent > n_unified[2].similarity_percent
    /\ n_unified[2].similarity_percent > n_unified[3].similarity_percent
    /\ n_enhanced[1].similarity_percent > n_enhanced[3].similarity_percent

\* C15: a response of search carries the domain, the confidence and the
\* phrases of the keyword's expansion, and names in engine_used the type of
\* the engine that was active during the call and served it; when the
\* configuration requests OpenSearch with enabled false, the call raises
\* nothing and engine_used names sqlite.
C15_ResponseStamped ==
    /\ (sr.pc = "done" /\ ~sr.escaped) =>
          LET expansion == expand_keyword(sr.keyword, 5)
          IN  /\ sr.response.query = sr.keyword
              /\ sr.response.domain = expansion.domain
              /\ sr.response.confidence = expansion.confidence
              /\ sr.response.expanded_phrases = expansion.expanded_phrases
              /\ sr.engine \in sr.seen
              /\ sr.response.engine_used = engines[sr.engine].type
    /\ (sr.pc = "done" /\ env.engine = "opensearch" /\ ~env.enabled) =>
          /\ ~sr.escaped
          /\ sr.response.engine_used = "sqlite"

\* a search on the manager built with OpenSearch requested but disabled
\* returns hits found by the SQLite engine
C15_Witness ==
    /\ sr.pc = "done"
    /\ env.engine = "opensearch"
    /\ env.os_available
    /\ ~env.enabled
    /\ sr.response.engine_used = "sqlite"
    /\ sr.response.domain = "networking"
    /\ sr.response.hits # <<>>

\* the records of the corpus a filters argument lets through
PassesFilters(filters, tender_id) ==
    Corpus[tender_id].service_category \in filters.service_categories

\* C16: a search called with filters returns only hits that satisfy each
\* filter given, with a total_matches that counts no other record; a search
\* called without filters on the SQLite engine counts every record that
\* matches the query.
C16_FiltersApplied ==
    /\ (sr.pc = "done" /\ ~sr.escaped /\ sr.filters.given) =>
          /\ \A i \in 1..Len(sr.response.hits) :
                /\ PassesFilters(sr.filters, sr.response.hits[i].tender_id)
                /\ sr.response.hits[i].similarity_percent >=
                       sr.filters.min_similarity
          /\ sr.response.total_matches <=
                Cardinality({r \in 1..Len(Corpus) : PassesFilters(sr.filters, r)})
    /\ (/\ sr.pc = "done" /\ ~sr.escaped /\ ~sr.filters.given
        /\ sr.queried /\ ~sr.raised
        /\ engines[sr.engine].type = "sqlite") =>
          sr.response.total_matches =
              Cardinality({r \in 1..Len(Corpus) :
                              FtsMatch(FtsLex(sr.fts5_query), Corpus[r])})

\* C17: when the selection run of the constructor ends in the fallback to
\* SQLite and the SQLite engine cannot be constructed, the constructor
\* raises: no engine is active, no OpenSearch engine exists while or after
\* the fallback runs, and no search is ever served by the object.
C17_BaselineFailureIsFatal ==
    /\ (/\ sel.caller = "init"
        /\ sel.pc \in {"raised", "ctor_raised", "returned"}
        /\ env.db # "ok"
        /\ env.engine = "sqlite" \/ OpenSearchCannotStart(env)) =>
          /\ sel.pc \in {"raised", "ctor_raised"}
          /\ current_engine = 0
          /\ engines = <<>>
          /\ sr = IdleSearch
    /\ (/\ sel.caller = "init"
        /\ sel.pc \in {"sq_new", "sq_init", "raised", "ctor_raised"}) =>
          /\ current_engine = 0
          /\ \A i \in 1..Len(engines) : engines[i].type # "opensearch"

\* OpenSearch was requested, its cluster reported red, and the database
\* file is missing: the constructor has raised
C17_Witness ==
    /\ sel.caller = "init"
    /\ sel.pc = "ctor_raised"
    /\ env.engine = "opensearch"
    /\ OpenSearchConfigured(env)
    /\ ~env.ctor_in_loop
    /\ env.cluster = "red"
    /\ env.db = "missing"

\* the health check of the selection run in progress reports healthy
HealthyInThisRun ==
    HealthOutcome(IF sel.caller = "init" THEN env.ctor_in_loop ELSE TRUE,
                  env.cluster) = "healthy"

\* no OpenSearch client is built and no health check issued unless the
\* library, enabled and hosts checks have passed
NoClientBeforeChecks ==
    ~OpenSearchConfigured(env) =>
        /\ sel.pc \notin {"L118", "os_init", "L121"}
        /\ \A i \in 1..Len(engines) : engines[i].type # "opensearch"

C19_ReloadActivatesOpenSearch ==
    (/\ sel.caller = "reload"
     /\ sel.pc = "returned"
     /\ env.engine = "opensearch"
     /\ OpenSearchConfigured(env)
     /\ env.cluster = "green") =>
        /\ sel.result.success = TRUE
        /\ sel.result.new_engine = "opensearch"
        /\ current_engine \in 1..Len(engines)
        /\ engines[current_engine] = [type |-> "opensearch", ready |-> TRUE]

\* the parts of the environment that are configuration
ConfigOf(e) ==
    [engine |-> e.engine, os_available |-> e.os_available,
     enabled |-> e.enabled, hosts |-> e.hosts]

\* C20: once the manager is constructed, a step changes the active engine
\* only if it is the assignment of a reload_engine run; search,
\* get_engine_info with its recommendation, get_filter_options and the
\* aggregation calls change neither the active engine nor the engine objects,
\* and no step changes the configuration.
C20_OnlyReloadChangesEngine ==
    [][/\ ConfigOf(env') = ConfigOf(env)
       /\ (Constructed /\ current_engine' # current_engine) =>
             /\ sel.caller = "reload"
             /\ sel.pc = "assign"
             /\ current_engine' = sel.engine
       /\ (sel' = sel /\ (sr' # sr \/ info' # info)) =>
             UNCHANGED <<current_engine, engines, env>>]_vars

\* a report with the suggestion to consider OpenSearch was returned by a
\* manager whose engine a reload has replaced
C20_Witness ==
    /\ info.call = "get_engine_info"
    /\ info.result.engine_type = "sqlite"
    /\ info.result.recommendation.reason = "Dataset exceeds 100K records"
    /\ sel.caller = "reload"
    /\ sel.pc = "idle"
    /\ current_engine = 2
    /\ sr.pc = "idle"
    /\ h_valid_zero # {}

\* max(1, round(100 * (worst - score) / (worst - best))) over the signed
\* backend scores of a page, the lowest being the best
MinMaxPercent(score, best, worst) ==
    LET r == RoundHalfEven(100 * (worst - score), worst - best)
    IN  IF r >= 1 THEN r ELSE 1

PageBest(rows) == SeqMin([i \in 1..Len(rows) |-> rows[i].bm25])

PageWorst(rows) == SeqMax([i \in 1..Len(rows) |-> rows[i].bm25])

\* C21: in a result page whose raw scores are not all equal, each hit's
\* similarity_percent is max(1, round(100 * (worst - score) / (worst - best)))
\* with best the lowest and worst the highest raw score of the page,
\* whichever engine processed the page.
C21_MinMaxSimilarity ==
    ~AllScoresEqual(n_rows) =>
        /\ n_pc \in {"unified", "done"} =>
              \A i \in 1..Len(n_unified) :
                  n_unified[i].similarity_percent =
                      MinMaxPercent(n_rows[i].bm25, PageBest(n_rows),
                                    PageWorst(n_rows))
        /\ n_pc = "done" =>
              \A i \in 1..Len(n_enhanced) :
                  n_enhanced[i].similarity_percent =
                      MinMaxPercent(n_rows[i].bm25, PageBest(n_rows),
                                    PageWorst(n_rows))

RECURSIVE TermWordCounts(_, _, _)
\* the number of words of each term of a compiled query, in query order:
\* words is the query split at whitespace, open tells whether a quoted
\* term is being read and n how many of its words were read
TermWordCounts(words, open, n) ==
    IF words = <<>> THEN <<>>
    ELSE LET w == Head(words)
             closes == w[Len(w)] = "\""
         IN  IF open
             THEN IF closes
                  THEN <<n + 1>> \o TermWordCounts(Tail(words), FALSE, 0)
                  ELSE TermWordCounts(Tail(words), TRUE, n + 1)
             ELSE IF w = <<"O","R">>
                  THEN TermWordCounts(Tail(words), FALSE, 0)
                  ELSE IF w[1] = "\"" /\ ~(Len(w) > 1 /\ closes)
                       THEN TermWordCounts(Tail(words), TRUE, 1)
                       ELSE <<1>> \o TermWordCounts(Tail(words), FALSE, 0)

\* C22: in the query compiled by _build_fts5_query the OR-joined terms stand
\* in non-increasing order of their number of words, counted on the term as
\* it appears in the query: no term of fewer words precedes one of more.
C22_TermsBySpecificity ==
    q_pc \in {"unified", "done"} =>
        LET counts == TermWordCounts(Split(q_unified), FALSE, 0)
        IN  \A i \in 1..(Len(counts) - 1) : counts[i] >= counts[i + 1]

\* the phrases that hold a character other than reserved ones and whitespace
SubstantialPhrases(phrases) ==
    {k \in 1..Len(phrases) :
        ~(Range(phrases[k]) \subseteq ReservedChars \cup Whitespace)}

\* C23: sanitizing a sanitized phrase changes nothing; a phrase made only of
\* reserved characters and whitespace sanitizes to the empty string and puts
\* no term in the compiled query, which is built all the same.
C23_SanitizeIdempotent ==
    q_pc \in {"unified", "done"} =>
        /\ \A k \in 1..Len(q_phrases) :
              LET once == _sanitize_fts5_input(q_phrases[k])
              IN  /\ _sanitize_fts5_input(once) = once
                  /\ k \notin SubstantialPhrases(q_phrases) => once = <<>>
        /\ Len(TermWordCounts(Split(q_unified), FALSE, 0)) =
               Cardinality(SubstantialPhrases(q_phrases))
        /\ SubstantialPhrases(q_phrases) = {} => q_unified = <<>>

\* a list of one phrase of reserved characters only and one phrase that
\* sanitization changes, compiled to the single term of the second
C23_Witness ==
    /\ q_pc = "unified"
    /\ q_phrases = << <<"@","#","$","%">>,
                      <<"c","+","+"," ","d","e","v","e","l","o","p","e","r">> >>
    /\ q_unified = <<"\"","c"," ","d","e","v","e","l","o","p","e","r","\"">>

\* the row of the page is one the table returns for the MATCH expression
IsHit(query, row) ==
    LET terms == FtsLex(query)
        record == Corpus[((row.tender_id - 1) % Len(Corpus)) + 1]
    IN  FtsValid(terms) /\ FtsMatch(terms, record)

\* the phrases whose lower case is a substring of the lower-case title, in
\* expansion order, or the keyword alone when there is none
ClaimedMatches(expanded_phrases, title, keyword) ==
    LET found == SelectSeq(expanded_phrases,
                           LAMBDA p : Contains(Lower(p), Lower(title)))
    IN  IF found # <<>> THEN found ELSE <<keyword>>

\* C24: for every hit, matched_phrases lists the expansion phrases whose
\* lower case is a substring of the lower-case title, in expansion order,
\* and holds the original keyword alone when there is no such phrase; it is
\* never empty, whichever engine processed the page.
C24_MatchedPhrasesNeverEmpty ==
    /\ n_pc \in {"unified", "done"} =>
          LET phrases == expand_keyword(n_keyword, 5).expanded_phrases
          IN  \A i \in 1..Len(n_unified) :
                  IsHit(_build_fts5_query(phrases), n_rows[i]) =>
                      /\ n_unified[i].matched_phrases # <<>>
                      /\ n_unified[i].matched_phrases =
                             ClaimedMatches(phrases, n_rows[i].title, n_keyword)
    /\ n_pc = "done" =>
          LET phrases == expand_keyword(n_keyword, 6).expanded_phrases
          IN  \A i \in 1..Len(n_enhanced) :
                  IsHit(_build_enhanced_fts5_query(phrases), n_rows[i]) =>
                      /\ n_enhanced[i].matched_phrases # <<>>
                      /\ n_enhanced[i].matched_phrases =
                             ClaimedMatches(phrases, n_rows[i].title, n_keyword)

\* the tiers by number of available expansions, in thousandths
ClaimedTier(n) ==
    IF n >= 4 THEN 950 ELSE IF n = 3 THEN 900 ELSE IF n = 2 THEN 750 ELSE 500

\* C25: on a lookup hit with max_expansions >= 1 and no load running during
\* the call, the confidence is the tier of the number of expansions the
\* dictionary holds for the keyword, times the keyword's declared weight
\* (1.0 when none is declared), up to the rounding at the third decimal; so
\* it does not depend on max_expansions.
C25_ConfidenceFromAvailable ==
    (/\ rd.pc = "done"
     /\ rd.max_expansions >= 1
     /\ IF rd.impl = "v1"
        THEN Strip(Lower(rd.keyword)) \in DOMAIN _initialize_comprehensive_synonyms
        ELSE /\ rd.candidates = {DictOf(y)}
             /\ Strip(Lower(rd.keyword)) \in DOMAIN y.synonyms
             /\ rd.result = V2Expand(DictOf(y), rd.keyword, rd.max_expansions)) =>
        LET key == Strip(Lower(rd.keyword))
            available == IF rd.impl = "v1"
                         THEN Len(_initialize_comprehensive_synonyms[key])
                         ELSE Len(y.synonyms[key])
            weight == IF rd.impl = "v1" THEN 1000
                      ELSE DictGet(y.weights, key, 1000)
        IN  Abs(rd.result.confidence * 1000 - ClaimedTier(available) * weight)
                <= 500

\* C26: a lookup of a token whose normalized form is not a key of the
\* expansion dictionary, with no load running during the call, reports the
\* domain "general".
C26_MissIsGeneral ==
    (/\ rd.pc = "done"
     /\ IF rd.impl = "v1"
        THEN Strip(Lower(rd.keyword)) \notin
                 DOMAIN _initialize_comprehensive_synonyms
        ELSE /\ rd.candidates = {DictOf(y)}
             /\ Strip(Lower(rd.keyword)) \notin DOMAIN y.synonyms
             /\ rd.result = V2Expand(DictOf(y), rd.keyword, rd.max_expansions)) =>
        rd.result.domain = "general"

\* the recommendation suggests a higher-capacity backend, medium urgency
ConsidersBackend(r) ==
    /\ "should_consider_opensearch" \in DOMAIN r
    /\ r.should_consider_opensearch
    /\ "urgency" \in DOMAIN r
    /\ r.urgency = "medium"

\* the recommendation rates the performance excellent and names no action
ExcellentNoAction(r) ==
    /\ r.current_performance = "excellent"
    /\ "action" \in DOMAIN r => r.action = "None"
    /\ "should_consider_opensearch" \in DOMAIN r => ~r.should_consider_opensearch
    /\ "should_optimize" \in DOMAIN r => ~r.should_optimize

\* the class the thresholds give to a snapshot
ThresholdClass(r, stats) ==
    IF stats.record_count > 100000 THEN ConsidersBackend(r)
    ELSE IF stats.avg_query_time_ms > 50000
         THEN r.current_performance = "suboptimal" /\ ~ConsidersBackend(r)
         ELSE ExcellentNoAction(r)

\* C27 as stated: whichever engine is active, the recommendation for a
\* snapshot suggests a higher-capacity backend with medium urgency when
\* record_count > 100,000, otherwise is "suboptimal" when the average latency
\* is above 500 ms, otherwise is "excellent" with no action.
C27_ClassesForAnyEngine ==
    info.call = "_get_recommendation" => ThresholdClass(info.result, info.stats)

\* C27: with the SQLite engine active the recommendation follows the two
\* thresholds, which a count of exactly 100,000 and a latency of exactly
\* 500 ms do not cross; with the OpenSearch engine active it is "excellent"
\* with no action for every snapshot.
C27_ClassesForSqlite ==
    info.call = "_get_recommendation" =>
        IF engines[current_engine].type = "sqlite"
        THEN ThresholdClass(info.result, info.stats)
        ELSE ExcellentNoAction(info.result)

\* a snapshot exactly on both thresholds, rated excellent on SQLite
C27_Witness ==
    /\ info.call = "_get_recommendation"
    /\ engines[current_engine].type = "sqlite"
    /\ info.stats.record_count = 100000
    /\ info.stats.avg_query_time_ms = 50000
    /\ info.result.current_performance = "excellent"
    /\ info.result.action = "None"

\* the keys a document gives when all the sections it lists are loaded
DocKeys(doc) ==
    UNION {{LoadKey(doc.sections[dn].items[i].keyword) :
               i \in 1..Len(doc.sections[dn].items)} :
           dn \in (DOMAIN doc.sections) \cap
                      Range(DictGet(doc, "domains", <<>>))}

\* C28: after construction and after every reload, whatever is at the path
\* of the synonyms file, the manager holds a non-empty dictionary: the keys
\* of a well-formed document, each with a value, or the built-in one.
C28_DictionaryNeverEmpty ==
    ld.pc = "idle" =>
        /\ DOMAIN y.synonyms # {}
        /\ \/ y.synonyms = FallbackSynonyms
           \/ \E doc \in {f \in YamlFiles : f.kind = "mapping"} :
                 DOMAIN y.synonyms = DocKeys(doc)

\* the document the dictionary in effect was loaded from, in full
LoadedFrom(doc) ==
    /\ doc.kind = "mapping"
    /\ "domains" \in DOMAIN doc
    /\ y.config = doc.config
    /\ y.domains = doc.domains
    /\ DOMAIN y.synonyms = DocKeys(doc)

\* C29: for a keyword of a dictionary loaded from a document, also one
\* declared in several domain sections, the domain that expand_keyword
\* reports is a section holding the entry whose expansions and weight the
\* call returns.
C29_DomainOfExpansion ==
    \A doc \in YamlFiles :
        (/\ rd.pc = "done"
         /\ rd.impl = "v2"
         /\ rd.candidates = {DictOf(y)}
         /\ Strip(Lower(rd.keyword)) \in DOMAIN y.synonyms
         /\ rd.result = V2Expand(DictOf(y), rd.keyword, rd.max_expansions)
         /\ LoadedFrom(doc)) =>
            LET key == Strip(Lower(rd.keyword))
                dn == rd.result.domain
            IN  /\ dn \in DOMAIN doc.sections
                /\ \E i \in 1..Len(doc.sections[dn].items) :
                      LET item == doc.sections[dn].items[i]
                      IN  /\ LoadKey(item.keyword) = key
                          /\ EntryExpansions(item) = y.synonyms[key]
                          /\ EntryWeight(item) = rd.result.weight

\* the token is a keyword of a listed section of the document, spelled as
\* declared up to letter case and surrounding whitespace
DeclaredIn(doc, token) ==
    \E dn \in (DOMAIN doc.sections) \cap Range(doc.domains) :
        \E i \in 1..Len(doc.sections[dn].items) :
            Lower(doc.sections[dn].items[i].keyword) = Lower(Strip(token))

\* C30: with a dictionary loaded from a document and no load running, a
\* lookup of a keyword the document declares, spelled as declared in any
\* letter case and with or without surrounding whitespace, is a hit: it
\* reports the source of a known keyword and returns declared expansions,
\* not the token itself.
C30_DeclaredKeywordIsHit ==
    \A doc \in YamlFiles :
        (/\ rd.pc = "done"
         /\ rd.impl = "v2"
         /\ rd.candidates = {DictOf(y)}
         /\ rd.result = V2Expand(DictOf(y), rd.keyword, rd.max_expansions)
         /\ LoadedFrom(doc)
         /\ DeclaredIn(doc, rd.keyword)) =>
            /\ rd.result.source = "yaml_config"
            /\ rd.result.normalized_keyword \in DOMAIN y.synonyms
            /\ rd.result.expanded_phrases =
                   Prefix(y.synonyms[rd.result.normalized_keyword],
                          rd.max_expansions)

====
